---- MODULE Spec2Model ----
(***************************************************************************)
(* Carica: typed configuration marshalling.                                *)
(*                                                                         *)
(* Python values are modelled as tagged records [k |-> kind, v |-> data].  *)
(* The kind decides the shape of the data:                                 *)
(*   "int", "float" : an integer            "str"  : a string              *)
(*   "bool"         : a BOOLEAN             "none" : 0                     *)
(*   "list", "tuple", "set" : the sequence of elements in iteration order  *)
(*   "dict"         : the sequence of <<key, value>> items in order        *)
(*   "obj"          : 0   (an instance of a class with no serialize)       *)
(*   "ser"          : the myField of a MySerializableClass instance        *)
(*   "proxy"        : the value that the instance's serialize() returns    *)
(*   "serdict"      : the items of a dict subclass that has serialize()    *)
(*   "dc"           : the <<field name, value>> items of a                 *)
(*                    SerializableDataClass instance                       *)
(***************************************************************************)
EXTENDS Integers, Sequences, FiniteSets, TLC

VARIABLES pc, call, ret, cfgModule, config, logs, idx

vars == <<pc, call, ret, cfgModule, config, logs, idx>>

---------------------------------------------------------------------------
(* Values *)

PyInt(n) == [k |-> "int", v |-> n]
\* A float is held as twice its value, so that halves exist: 1.5 is
\* PyFloat(3) and float(3) is PyFloat(6).
PyFloat(n) == [k |-> "float", v |-> n]
PyStr(s) == [k |-> "str", v |-> s]
PyBool(b) == [k |-> "bool", v |-> b]
PyNone == [k |-> "none", v |-> 0]
PyList(s) == [k |-> "list", v |-> s]
PyTuple(s) == [k |-> "tuple", v |-> s]
PySet(s) == [k |-> "set", v |-> s]
PyDict(items) == [k |-> "dict", v |-> items]
MyNonSerializableType == [k |-> "obj", v |-> 0]
MySerializableClass(myField) == [k |-> "ser", v |-> myField]
SerializableProxy(inner) == [k |-> "proxy", v |-> inner]
SerializableDict(items) == [k |-> "serdict", v |-> items]
SerializableDataClass(items) == [k |-> "dc", v |-> items]

\* One <<key, value>> item of a mapping.
Item(key, value) == <<key, value>>

\* The keys of a mapping, in order.
Keys(d) == [i \in 1..Len(d.v) |-> d.v[i][1]]

\* carica/interface/Serializable.py: primativeTypes, as kinds.  bool is a
\* subclass of int in Python, and a dict subclass is a dict.
primativeTypes == {"int", "float", "str", "bool", "list", "dict", "set"}

\* The classes an object of each kind is an instance of, besides its own.
Bases(kind) ==
    CASE kind = "bool" -> {"bool", "int"}
      [] kind = "serdict" -> {"serdict", "dict"}
      [] OTHER -> {kind}

\* isinstance(o, SerializableType): the object has serialize and deserialize.
IsSerializable(o) == o.k \in {"ser", "proxy", "serdict", "dc"}

\* isinstance(o, Mapping)
IsMapping(o) == o.k \in {"dict", "serdict"}

\* isinstance(o, Iterable); str is iterable too and is excluded by the caller.
IsIterable(o) == o.k \in {"list", "tuple", "set", "dict", "serdict", "str"}

IsStr(o) == o.k = "str"

\* typeChecking.objectIsShallowPrimative
objectIsShallowPrimative(o) == Bases(o.k) \cap primativeTypes # {}

---------------------------------------------------------------------------
(* Type hints.  cat is "any", "class", "dataclass", "union" or "generic";  *)
(* a class is named by the kind of its instances, a generic by its origin. *)

TAny == [cat |-> "any", name |-> "Any", params |-> <<>>]
TClass(kind) == [cat |-> "class", name |-> kind, params |-> <<>>]
TEllipsis == [cat |-> "ellipsis", name |-> "...", params |-> <<>>]
\* A SerializableDataClass subclass: fields is the sequence of
\* <<field name, type hint>> in declaration order, none with a default.
TDataClass(fields) == [cat |-> "dataclass", name |-> "dc", params |-> fields]
TUnion(members) == [cat |-> "union", name |-> "Union", params |-> members]
TGeneric(origin, typeArgs) == [cat |-> "generic", name |-> origin, params |-> typeArgs]

NoneType == TClass("none")

FieldNames(cls) == [i \in 1..Len(cls.params) |-> PyStr(cls.params[i][1])]

\* isinstance(fieldType, type)
IsType(T) == T.cat \in {"class", "dataclass"}

\* issubclass(T, SerializableType), for a class T
IsSerializableClass(T) ==
    T.cat = "dataclass" \/ (T.cat = "class" /\ T.name \in {"ser", "proxy", "serdict"})

\* issubclass(T, primativeTypesTuple), for a class T
IsPrimativeClass(T) == T.cat = "class" /\ Bases(T.name) \cap primativeTypes # {}

\* isinstance(value, T), for a class T
IsInstance(value, T) ==
    IF T.cat = "dataclass" THEN value.k = "dc" /\ Keys(value) = FieldNames(T)
    ELSE T.name \in Bases(value.k)

\* type(value); the class of a dataclass instance annotates each field with
\* the class of the value the instance holds.
TypeOf(value) ==
    IF value.k = "dc"
    THEN TDataClass([i \in 1..Len(value.v) |-> <<value.v[i][1].v, TClass(value.v[i][2].k)>>])
    ELSE TClass(value.k)

---------------------------------------------------------------------------
(* Outcomes of a call: a returned value or a raised exception.  `reached` *)
(* is the greatest len(path) of any _serialize call entered on the way.   *)

Return(value, reached) ==
    [tag |-> "ok", val |-> value, path |-> <<>>, depth |-> 0, reached |-> reached]

\* KeyTracedException(o, path=path): with no depth given, the constructor
\* takes the depth to be len(path).
Raise_DepthOmitted(exc, o, depth, path, reached) ==
    [tag |-> exc, val |-> o, path |-> path, depth |-> Len(path), reached |-> reached]

\* KeyTracedException(o, depth, path) and the builtin exceptions.
Raise(exc, o, depth, path, reached) ==
    [tag |-> exc, val |-> o, path |-> path, depth |-> depth, reached |-> reached]

Max(a, b) == IF a >= b THEN a ELSE b

WithReached(r, n) == [r EXCEPT !.reached = Max(r.reached, n)]

---------------------------------------------------------------------------
(* carica._serialize *)

DefaultDepthLimit == 20

SerializeMarker == PyStr("[serialize]")

\* o.serialize(**serializerKwargs) of each Serializable kind.
CallSerialize(o) ==
    CASE o.k = "ser" -> Return(PyDict(<<Item(PyStr("myField"), o.v)>>), 0)
      [] o.k = "proxy" -> Return(o.v, 0)
      [] o.k = "serdict" -> Return(PyDict(<<Item(PyStr("wrapped"), PyDict(o.v))>>), 0)
      [] o.k = "dc" ->
            \* {k: _serialize(v) for k, v in self._fieldItems()}: _serialize is
            \* called without its required argument `path`.
            IF o.v = <<>> THEN Return(PyDict(<<>>), 0)
            ELSE Raise("TypeError", PyNone, 0, <<>>, 0)

\* for i in o: the elements in iteration order (a mapping yields its keys).
Elements(o) ==
    IF IsMapping(o) THEN [i \in 1..Len(o.v) |-> o.v[i][1]] ELSE o.v

\* DispatchCase with the mapping test moved in front of the Serializable test.
DispatchCase_MappingFirst(o) ==
    IF IsMapping(o) THEN "mapping"
    ELSE IF IsSerializable(o) THEN "serializable"
    ELSE IF IsIterable(o) /\ ~IsStr(o) THEN "iterable"
    ELSE IF objectIsShallowPrimative(o) THEN "primative"
    ELSE "none"

\* The branch of _serialize that handles o: the first test that matches.
DispatchCase(o) ==
    IF IsSerializable(o) THEN "serializable"
    ELSE IF IsMapping(o) THEN "mapping"
    ELSE IF IsIterable(o) /\ ~IsStr(o) THEN "iterable"
    ELSE IF objectIsShallowPrimative(o) THEN "primative"
    ELSE "none"

\* KeyIsStr with the test dropped.
KeyIsStr_Unchecked(key) == TRUE

\* The key test in the loop over a mapping: isinstance(k, str).
KeyIsStr(key) == IsStr(key)

\* IsMultiTypeList with only the first of the two symmetric tests.
IsMultiTypeList_FirstIsMappingOnly(serializedList) ==
    /\ Len(serializedList) > 1
    /\ IsMapping(serializedList[1])
    /\ \E i \in 2..Len(serializedList) : ~IsMapping(serializedList[i])

\* The homogeneity test on the serialized list.
IsMultiTypeList(serializedList) ==
    /\ Len(serializedList) > 1
    /\ \/ /\ IsMapping(serializedList[1])
          /\ \E i \in 2..Len(serializedList) : ~IsMapping(serializedList[i])
       \/ /\ ~IsMapping(serializedList[1])
          /\ \E i \in 2..Len(serializedList) : IsMapping(serializedList[i])

\* DepthExceeded off by one.
DepthExceeded_OffByOne(path, depthLimit) == Len(path) >= depthLimit

\* The depth test at the head of _serialize.
DepthExceeded(path, depthLimit) == Len(path) > depthLimit

RECURSIVE _serialize(_, _, _)
RECURSIVE serializeMapping(_, _, _, _, _, _)
RECURSIVE serializeIterable(_, _, _, _, _, _, _)

\* The loop over o.items(): items[i..] are still to do, serializedDict holds
\* the items done.
serializeMapping(items, i, serializedDict, path, depthLimit, reached) ==
    IF i > Len(items) THEN Return(PyDict(serializedDict), reached)
    ELSE LET key == items[i][1] IN
         IF ~KeyIsStr(key)
         THEN Raise("NonStringMappingKey", key, Len(path) - 1, path, reached)
         ELSE LET r == _serialize(items[i][2], Append(path, key), depthLimit) IN
              IF r.tag # "ok" THEN WithReached(r, reached)
              ELSE serializeMapping(items, i + 1,
                                    Append(serializedDict, Item(key, r.val)),
                                    path, depthLimit, Max(reached, r.reached))

\* The loop over the elements of o, then the homogeneity test.
serializeIterable(o, elems, i, serializedList, path, depthLimit, reached) ==
    IF i > Len(elems)
    THEN IF IsMultiTypeList(serializedList)
         THEN Raise("MultiTypeList", o, Len(path) - 1, path, reached)
         ELSE Return(PyList(serializedList), reached)
    ELSE LET r == _serialize(elems[i], Append(path, elems[i]), depthLimit) IN
         IF r.tag # "ok" THEN WithReached(r, reached)
         ELSE serializeIterable(o, elems, i + 1, Append(serializedList, r.val),
                                path, depthLimit, Max(reached, r.reached))

_serialize(o, path, depthLimit) ==
    IF DepthExceeded(path, depthLimit)
    THEN Raise("RecursionError", PyNone, 0, <<>>, Len(path))
    ELSE LET c == DispatchCase(o) IN
         CASE c = "serializable" ->
                LET s == CallSerialize(o) IN
                IF s.tag # "ok" THEN WithReached(s, Len(path))
                ELSE WithReached(_serialize(s.val, Append(path, SerializeMarker),
                                            depthLimit), Len(path))
           [] c = "mapping" ->
                serializeMapping(o.v, 1, <<>>, path, depthLimit, Len(path))
           [] c = "iterable" ->
                serializeIterable(o, Elements(o), 1, <<>>, path, depthLimit, Len(path))
           [] c = "primative" -> Return(o, Len(path))
           [] OTHER ->
                Raise("NonSerializableObject", o, Len(path) - 1, path, Len(path))

---------------------------------------------------------------------------
(* Inputs of the serializer: every value of at most MaxNodes nodes built  *)
(* from the leaves below, the examples of the documentation and tests,    *)
(* and chains of nested lists around the depth limit.                     *)

MaxNodes == 3

Leaves == {PyInt(1), PyStr("a"), MyNonSerializableType}

MapKeys == {PyStr("a"), PyStr("b"), PyInt(1)}

\* The sequences of n distinct keys.
KeySeqs(n) ==
    {ks \in [1..n -> MapKeys] : \A i, j \in 1..n : i # j => ks[i] # ks[j]}

RECURSIVE TreesOfSize(_)
RECURSIVE ForestsOfSize(_)

\* The non-empty sequences of values with n nodes in total.
ForestsOfSize(n) ==
    IF n = 0 THEN {<<>>}
    ELSE UNION {{<<t>> \o f : t \in TreesOfSize(m), f \in ForestsOfSize(n - m)} :
                m \in 1..n}

TreesOfSize(n) ==
    IF n = 1 THEN Leaves \cup {PyList(<<>>), PyDict(<<>>)}
    ELSE {SerializableProxy(t) : t \in TreesOfSize(n - 1)}
         \cup {PyList(f) : f \in ForestsOfSize(n - 1)}
         \cup UNION {{PyDict([i \in 1..Len(f) |-> Item(ks[i], f[i])]) :
                        ks \in KeySeqs(Len(f))} :
                     f \in {g \in ForestsOfSize(n - 1) : Len(g) <= Cardinality(MapKeys)}}

Trees == UNION {TreesOfSize(n) : n \in 1..MaxNodes}

RECURSIVE Nest(_, _)
\* n lists around leaf: [[...[leaf]...]]
Nest(n, leaf) == IF n = 0 THEN leaf ELSE PyList(<<Nest(n - 1, leaf)>>)

Chains == {Nest(n, PyInt(1)) : n \in (DefaultDepthLimit - 2)..(DefaultDepthLimit + 2)}

Examples ==
    { PyList(<<PyDict(<<Item(PyStr("a"), PyInt(1))>>), PyInt(2)>>),
      PyList(<<PyDict(<<Item(PyStr("a"), PyInt(1))>>),
               PyDict(<<Item(PyStr("b"), PyInt(2))>>)>>),
      PyDict(<<Item(PyInt(1), PyStr("x"))>>),
      PyList(<<PyList(<<PyDict(<<Item(PyStr("a"), PyInt(1))>>), PyInt(2)>>),
               PyDict(<<Item(PyInt(1), PyStr("x"))>>)>>),
      PyList(<<MyNonSerializableType, PyDict(<<Item(PyInt(1), PyStr("x"))>>)>>),
      PyList(<<PyList(<<PyInt(2), PyDict(<<Item(PyStr("a"), PyInt(1))>>)>>)>>),
      PyTuple(<<PyInt(1), PyStr("a")>>),
      PySet(<<PyInt(1), PyStr("a")>>),
      PyBool(TRUE), PyFloat(1), PyNone,
      MySerializableClass(PyStr("hello")),
      MySerializableClass(MyNonSerializableType),
      SerializableProxy(SerializableProxy(MyNonSerializableType)),
      SerializableProxy(MySerializableClass(PyInt(1))),
      SerializableDict(<<Item(PyStr("a"), PyInt(1))>>),
      SerializableDict(<<Item(PyInt(1), PyInt(1))>>),
      SerializableDataClass(<<>>),
      SerializableDataClass(<<Item(PyStr("intVar"), PyInt(1))>>),
      PyList(<<SerializableDataClass(<<Item(PyStr("intVar"), PyInt(1))>>)>>) }

SerializeInputs == Trees \cup Chains \cup Examples

SerializePaths == {<<>>, <<PyStr("x")>>}

SmallDepthLimit == 2

DepthLimits == {DefaultDepthLimit, SmallDepthLimit}

NoRet == [tag |-> "none", val |-> PyNone, path |-> <<>>, depth |-> 0, reached |-> 0]

\* One line of the log.
LogEntry(event, name, warning) == [event |-> event, name |-> name, warning |-> warning]

\* A scanned module variable (ConfigVariable): its name, its value in the
\* module and the type it is loaded as.
Variable(name, value, loadedType) == [name |-> name, value |-> value, loadedType |-> loadedType]

\* The attributes of the module that declares the given variables.
Module(defaults) ==
    [n \in {defaults[i].name : i \in 1..Len(defaults)} |->
        defaults[CHOOSE i \in 1..Len(defaults) : defaults[i].name = n].value]

RECURSIVE TomlValue(_)
\* A serialized value as it is read back from the TOML file, tomlkit
\* containers converted: an array is a list and a table is a dict.
TomlValue(value) ==
    CASE value.k \in {"list", "tuple", "set"} ->
            PyList([i \in 1..Len(value.v) |-> TomlValue(value.v[i])])
      [] value.k = "dict" ->
            PyDict([i \in 1..Len(value.v) |-> Item(value.v[i][1], TomlValue(value.v[i][2]))])
      [] OTHER -> value

---------------------------------------------------------------------------
(* The serializer called directly (as the tests do) and by makeDefaultCfg *)

InitSer ==
    /\ pc = "start"
    /\ call \in [op : {"_serialize"}, o : SerializeInputs, path : SerializePaths,
                 depthLimit : DepthLimits]
            \cup [op : {"makeDefaultCfg"}, o : SerializeInputs,
                  path : {<<PyStr("x")>>}, depthLimit : {DefaultDepthLimit}]
    /\ ret = NoRet
    /\ cfgModule = Module(<<Variable("x", call.o, TypeOf(call.o))>>)
    /\ config = <<>>
    /\ logs = <<>>
    /\ idx = 0

\* _serialize(o, path, depthLimit=...)
Serialize ==
    /\ pc = "start"
    /\ call.op = "_serialize"
    /\ ret' = _serialize(call.o, call.path, call.depthLimit)
    /\ pc' = "done"
    /\ UNCHANGED <<call, cfgModule, config, logs, idx>>

\* makeDefaultCfg of a module with the one variable x:
\* newDoc[varName] = _serialize(var.value, [varName], serializerKwargs=...),
\* then the document is written to the file and the creation is logged.
MakeDefaultCfg ==
    /\ pc = "start"
    /\ call.op = "makeDefaultCfg"
    /\ ret' = _serialize(call.o, call.path, DefaultDepthLimit)
    /\ pc' = "done"
    /\ config' = IF ret'.tag = "ok" THEN <<Item("x", TomlValue(ret'.val))>> ELSE config
    /\ logs' = IF ret'.tag = "ok" THEN Append(logs, LogEntry("created", "", FALSE)) ELSE logs
    /\ UNCHANGED <<call, cfgModule, idx>>

NextSer == Serialize \/ MakeDefaultCfg

SpecSer == InitSer /\ [][NextSer]_vars

---------------------------------------------------------------------------
(* carica._serialize over objects that may contain themselves.  A heap    *)
(* maps each address to an object whose members are addresses, so that a  *)
(* container can hold itself and a serialize() can return its own object. *)

MaxObjects == 2

Addresses == 1..MaxObjects

\* The path segment that stands for the element object at address a.
Ref(a) == [k |-> "ref", v |-> a]

\* The objects of a heap: scalars, lists of up to two members, mappings of
\* up to one item, a Serializable whose serialize() returns the object at
\* an address, and SerializableDataClass instances of up to one field.
HeapObjects ==
    {PyInt(1), MyNonSerializableType}
        \cup {PyList(members) : members \in UNION {[1..n -> Addresses] : n \in 0..2}}
        \cup {PyDict(<<>>)}
        \cup {PyDict(<<Item(key, a)>>) : key \in {PyStr("a"), PyInt(1)}, a \in Addresses}
        \cup {SerializableProxy(a) : a \in Addresses}
        \cup {SerializableDataClass(<<>>)}
        \cup {SerializableDataClass(<<Item(PyStr("f"), a)>>) : a \in Addresses}

RECURSIVE serializeObject(_, _, _, _)
RECURSIVE serializeObjectItems(_, _, _, _, _, _, _)
RECURSIVE serializeObjectElements(_, _, _, _, _, _, _)

\* The mapping branch of _serialize for the mapping whose items are given.
serializeObjectItems(heap, items, i, serializedDict, path, depthLimit, reached) ==
    IF i > Len(items) THEN Return(PyDict(serializedDict), reached)
    ELSE LET key == items[i][1] IN
         IF ~KeyIsStr(key)
         THEN Raise("NonStringMappingKey", key, Len(path) - 1, path, reached)
         ELSE LET r == serializeObject(heap, items[i][2], Append(path, key), depthLimit) IN
              IF r.tag # "ok" THEN WithReached(r, reached)
              ELSE serializeObjectItems(heap, items, i + 1,
                                        Append(serializedDict, Item(key, r.val)),
                                        path, depthLimit, Max(reached, r.reached))

\* The iterable branch of _serialize for the collection at address a.
serializeObjectElements(heap, a, i, serializedList, path, depthLimit, reached) ==
    LET members == heap[a].v IN
    IF i > Len(members)
    THEN IF IsMultiTypeList(serializedList)
         THEN Raise("MultiTypeList", Ref(a), Len(path) - 1, path, reached)
         ELSE Return(PyList(serializedList), reached)
    ELSE LET r == serializeObject(heap, members[i], Append(path, Ref(members[i])), depthLimit) IN
         IF r.tag # "ok" THEN WithReached(r, reached)
         ELSE serializeObjectElements(heap, a, i + 1, Append(serializedList, r.val),
                                      path, depthLimit, Max(reached, r.reached))

\* _serialize(o, path, depthLimit) for the object o at address a.
serializeObject(heap, a, path, depthLimit) ==
    IF DepthExceeded(path, depthLimit)
    THEN Raise("RecursionError", PyNone, 0, <<>>, Len(path))
    ELSE LET o == heap[a]
             c == DispatchCase(o)
         IN  CASE c = "serializable" /\ o.k = "proxy" ->
                    WithReached(serializeObject(heap, o.v, Append(path, SerializeMarker),
                                                depthLimit), Len(path))
               [] c = "serializable" /\ o.k = "dc" ->
                    \* serialize() calls _serialize(v) for each field, without
                    \* the required argument `path`; with no field it returns {}.
                    IF o.v # <<>> THEN Raise("TypeError", PyNone, 0, <<>>, Len(path))
                    ELSE IF DepthExceeded(Append(path, SerializeMarker), depthLimit)
                    THEN Raise("RecursionError", PyNone, 0, <<>>, Len(path) + 1)
                    ELSE Return(PyDict(<<>>), Len(path) + 1)
               [] c = "mapping" ->
                    serializeObjectItems(heap, o.v, 1, <<>>, path, depthLimit, Len(path))
               [] c = "iterable" ->
                    serializeObjectElements(heap, a, 1, <<>>, path, depthLimit, Len(path))
               [] c = "primative" -> Return(o, Len(path))
               [] OTHER ->
                    Raise("NonSerializableObject", o, Len(path) - 1, path, Len(path))

InitCyclic ==
    /\ pc = "start"
    /\ call \in [op : {"serializeObject"}, heap : [Addresses -> HeapObjects], o : {1},
                 path : {<<PyStr("x")>>}, depthLimit : DepthLimits]
    /\ ret = NoRet
    /\ cfgModule = <<>>
    /\ config = <<>>
    /\ logs = <<>>
    /\ idx = 0

\* _serialize(o, path, depthLimit=...) for the object at address call.o
SerializeObject ==
    /\ pc = "start"
    /\ call.op = "serializeObject"
    /\ ret' = serializeObject(call.heap, call.o, call.path, call.depthLimit)
    /\ pc' = IF ret'.tag = "ok" THEN "done" ELSE "raised"
    /\ UNCHANGED <<call, cfgModule, config, logs, idx>>

NextCyclic == SerializeObject

SpecCyclic == InitCyclic /\ [][NextCyclic]_vars

---------------------------------------------------------------------------
(* carica.typeChecking: the deep serializability checks *)

\* objectIsObjectIterable(o): an Iterable that is not a str.  A Mapping is
\* an Iterable, of its keys.
objectIsObjectIterable(o) == IsIterable(o) /\ ~IsStr(o)

\* objectIsShallowSerializable(o): isinstance(o, serializableTypesTuple),
\* the primitive types and SerializableType.
objectIsShallowSerializable(o) == objectIsShallowPrimative(o) \/ IsSerializable(o)

RECURSIVE objectIsDeepSerializable(_)
objectIsDeepSerializable(o) ==
    IF objectIsObjectIterable(o)
    THEN \A i \in 1..Len(Elements(o)) : objectIsDeepSerializable(Elements(o)[i])
    ELSE IF IsMapping(o)
    THEN \A i \in 1..Len(o.v) : IsStr(o.v[i][1]) /\ objectIsDeepSerializable(o.v[i][2])
    ELSE objectIsShallowSerializable(o)

RECURSIVE _recurseRaiseForDeepNonSerializable(_, _)
RECURSIVE recurseRaiseElements(_, _, _)
RECURSIVE recurseRaiseItems(_, _, _)

\* for i in o: _recurseRaiseForDeepNonSerializable(i, path + [i])
recurseRaiseElements(elems, i, path) ==
    IF i > Len(elems) THEN Return(PyNone, 0)
    ELSE LET r == _recurseRaiseForDeepNonSerializable(elems[i], Append(path, elems[i]))
         IN  IF r.tag # "ok" THEN r ELSE recurseRaiseElements(elems, i + 1, path)

\* for k, v in o.items(): the key test, then the value with path + [k]
recurseRaiseItems(items, i, path) ==
    IF i > Len(items) THEN Return(PyNone, 0)
    ELSE IF ~IsStr(items[i][1])
    THEN Raise("NonStringMappingKey", items[i][1], Len(path), path, 0)
    ELSE LET r == _recurseRaiseForDeepNonSerializable(items[i][2], Append(path, items[i][1]))
         IN  IF r.tag # "ok" THEN r ELSE recurseRaiseItems(items, i + 1, path)

_recurseRaiseForDeepNonSerializable(o, path) ==
    IF objectIsObjectIterable(o) THEN recurseRaiseElements(Elements(o), 1, path)
    ELSE IF IsMapping(o) THEN recurseRaiseItems(o.v, 1, path)
    ELSE IF ~objectIsShallowSerializable(o)
    THEN Raise("NonSerializableObject", o, Len(path), path, 0)
    ELSE Return(PyNone, 0)

raiseForDeepNonSerializable(o) == _recurseRaiseForDeepNonSerializable(o, <<>>)

\* Objects with a key that is itself a collection, besides the inputs of
\* the serializer.
CheckExamples ==
    { PyDict(<<Item(PyTuple(<<PyInt(1), MyNonSerializableType>>), PyInt(1))>>),
      PyDict(<<Item(PyStr("a"), PyDict(<<Item(PyInt(1), PyInt(2))>>))>>),
      PyDict(<<Item(PyStr("a"), PyNone)>>),
      PyList(<<PyDict(<<Item(PyStr("a"), MyNonSerializableType)>>)>>),
      PyList(<<MySerializableClass(PyStr("hello"))>>) }

InitCheck ==
    /\ pc = "start"
    /\ call \in [op : {"objectIsDeepSerializable", "raiseForDeepNonSerializable"},
                 o : Trees \cup Examples \cup CheckExamples]
    /\ ret = NoRet
    /\ cfgModule = <<>>
    /\ config = <<>>
    /\ logs = <<>>
    /\ idx = 0

\* objectIsDeepSerializable(o)
ObjectIsDeepSerializable ==
    /\ pc = "start"
    /\ call.op = "objectIsDeepSerializable"
    /\ ret' = Return(PyBool(objectIsDeepSerializable(call.o)), 0)
    /\ pc' = "done"
    /\ UNCHANGED <<call, cfgModule, config, logs, idx>>

\* raiseForDeepNonSerializable(o)
RaiseForDeepNonSerializable ==
    /\ pc = "start"
    /\ call.op = "raiseForDeepNonSerializable"
    /\ ret' = raiseForDeepNonSerializable(call.o)
    /\ pc' = IF ret'.tag = "ok" THEN "done" ELSE "raised"
    /\ UNCHANGED <<call, cfgModule, config, logs, idx>>

NextCheck == ObjectIsDeepSerializable \/ RaiseForDeepNonSerializable

SpecCheck == InitCheck /\ [][NextCheck]_vars

---------------------------------------------------------------------------
(* carica._partialModuleVariables: the scanner of a module's source.  A   *)
(* source is a sequence of lines; tokenize turns it into the token stream *)
(* the scanner iterates over, and executing it gives the module's         *)
(* attributes, which the scanner looks names up in.                       *)

MaxLines == 3

\* The names a source assigns.
Names == {"x", "key2"}

\* The lines of a source.  kind is
\*   "assign"    name = <number>            (indent 0 or 1)
\*   "override"  name = TypeOverride(float, <number>)
\*   "comment"   a line holding only a comment
\*   "blank"     an empty line
\*   "import"    import os
\*   "if"        if True:         "def"   def f():
\*   "pass"      pass                       (indent 0 or 1)
\*   "call"      x = dict(key1=1,   followed by the physical line  key2=2)
\*               whose indentation is `indent`
\* inline tells whether the line ends with a comment.
SourceLine(kind, name, indent, inline) ==
    [kind |-> kind, name |-> name, indent |-> indent, inline |-> inline]

TopLines ==
    {SourceLine("assign", n, 0, c) : n \in Names, c \in BOOLEAN}
        \cup {SourceLine("call", "x", i, c) : i \in {0, 1}, c \in BOOLEAN}
        \cup {SourceLine(kd, "", 0, FALSE) :
                kd \in {"comment", "blank", "import", "if", "def", "pass"}}
        \cup {SourceLine("override", "x", 0, FALSE)}

BlockLines ==
    {SourceLine("assign", n, 1, c) : n \in Names, c \in BOOLEAN}
        \cup {SourceLine("pass", "", 1, FALSE)}

\* Where a line leaves the block structure: "top", just after a block
\* header ("if:" or "def:"), or inside a block ("if" or "def").
NextCtx(ctx, line) ==
    CASE line.kind \in {"comment", "blank"} -> ctx
      [] line.kind = "if" -> "if:"
      [] line.kind = "def" -> "def:"
      [] line.indent = 1 /\ line.kind # "call" ->
            IF ctx \in {"if:", "if"} THEN "if" ELSE "def"
      [] OTHER -> "top"

\* The lines Python accepts next: a block header is followed by an indented
\* statement; comment-only and blank lines may stand anywhere.
AllowedLines(ctx) ==
    CASE ctx = "top" -> TopLines
      [] ctx \in {"if:", "def:"} ->
            BlockLines \cup {l \in TopLines : l.kind \in {"comment", "blank"}}
      [] OTHER -> TopLines \cup BlockLines

\* The block context in which line i of the source stands.
RECURSIVE CtxBefore(_, _)
CtxBefore(source, i) ==
    IF i = 1 THEN "top" ELSE NextCtx(CtxBefore(source, i - 1), source[i - 1])

\* Python accepts the source: each line is allowed where it stands, and
\* the last block header has its body.
WellFormed(source) ==
    /\ \A i \in 1..Len(source) : source[i] \in AllowedLines(CtxBefore(source, i))
    /\ Len(source) > 0 =>
          NextCtx(CtxBefore(source, Len(source)), source[Len(source)]) \notin {"if:", "def:"}

\* Sources of the documentation and of the tests that are longer than
\* MaxLines.
SourceExamples ==
    { \* the documented false positive, with key2 also a module variable
      << SourceLine("assign", "key2", 0, FALSE), SourceLine("comment", "", 0, FALSE),
         SourceLine("call", "x", 0, TRUE), SourceLine("assign", "x", 0, TRUE) >>,
      \* comments of several lines above a variable, a blank line between
      << SourceLine("comment", "", 0, FALSE), SourceLine("blank", "", 0, FALSE),
         SourceLine("comment", "", 0, FALSE), SourceLine("comment", "", 0, FALSE),
         SourceLine("assign", "x", 0, TRUE) >>,
      \* a comment above the second line of a block
      << SourceLine("if", "", 0, FALSE), SourceLine("pass", "", 1, FALSE),
         SourceLine("comment", "", 0, FALSE), SourceLine("assign", "key2", 1, TRUE),
         SourceLine("assign", "x", 0, FALSE) >> }

\* The characters of the decimal digit of a line number.
Digit(i) == <<"1", "2", "3", "4", "5", "6", "7", "8", "9">>[i]

\* The comment written on line i: "# c<i>" on a line of its own, "#i<i>"
\* at the end of a line.
CommentText(i, inline) ==
    IF inline THEN <<"#", "i", Digit(i)>> ELSE <<"#", " ", "c", Digit(i)>>

\* Python executes line i of the source in the module's namespace unless
\* the line is in the body of a function.
Executed(source, i) ==
    \/ source[i].kind \in {"override", "call"}
    \/ source[i].kind = "assign"
          /\ (source[i].indent = 0 \/ CtxBefore(source, i) \in {"if:", "if"})

\* typeChecking.TypeOverride(override, defaultValue): a proxy around the
\* default value that remembers the overriding type.
TypeOverride(override, defaultValue) ==
    [k |-> "override", v |-> <<override, defaultValue>>]

\* The value line i binds its name to.
BoundValue(source, i) ==
    CASE source[i].kind = "override" -> TypeOverride(TClass("float"), PyInt(i))
      [] source[i].kind = "call" ->
            PyDict(<<Item(PyStr("key1"), PyInt(1)), Item(PyStr("key2"), PyInt(2))>>)
      [] OTHER -> PyInt(i)

Absent == [k |-> "absent", v |-> 0]

\* The attributes of the module once its source has been executed: each
\* name holds the value of the last executed binding, or is absent.
Execute(source) ==
    [n \in Names |->
        LET bindings == {i \in 1..Len(source) : Executed(source, i) /\ source[i].name = n}
        IN  IF bindings = {} THEN Absent
            ELSE BoundValue(source, CHOOSE i \in bindings : \A j \in bindings : j <= i)]

Token(type, string) == [type |-> type, string |-> string]

\* The tokens of the right-hand side and end of line i.
LineEnd(source, i) ==
    (IF source[i].inline THEN <<Token("COMMENT", CommentText(i, TRUE))>> ELSE <<>>)
        \o <<Token("NEWLINE", "\n")>>

\* The tokens tokenize yields for line i, INDENT and DEDENT aside.
LineTokens(source, i) ==
    LET l == source[i]
    IN  CASE l.kind = "assign" ->
                <<Token("NAME", l.name), Token("OP", "="), Token("NUMBER", Digit(i))>>
                    \o LineEnd(source, i)
          [] l.kind = "override" ->
                <<Token("NAME", l.name), Token("OP", "="), Token("NAME", "TypeOverride"),
                  Token("OP", "("), Token("NAME", "float"), Token("OP", ","),
                  Token("NUMBER", Digit(i)), Token("OP", ")")>> \o LineEnd(source, i)
          [] l.kind = "call" ->
                <<Token("NAME", l.name), Token("OP", "="), Token("NAME", "dict"),
                  Token("OP", "("), Token("NAME", "key1"), Token("OP", "="),
                  Token("NUMBER", "1"), Token("OP", ","), Token("NL", "\n"),
                  Token("NAME", "key2"), Token("OP", "="), Token("NUMBER", "2"),
                  Token("OP", ")")>> \o LineEnd(source, i)
          [] l.kind = "comment" ->
                <<Token("COMMENT", CommentText(i, FALSE)), Token("NL", "\n")>>
          [] l.kind = "blank" -> <<Token("NL", "\n")>>
          [] l.kind = "import" ->
                <<Token("NAME", "import"), Token("NAME", "os"), Token("NEWLINE", "\n")>>
          [] l.kind = "if" ->
                <<Token("NAME", "if"), Token("NAME", "True"), Token("OP", ":"),
                  Token("NEWLINE", "\n")>>
          [] l.kind = "def" ->
                <<Token("NAME", "def"), Token("NAME", "f"), Token("OP", "("),
                  Token("OP", ")"), Token("OP", ":"), Token("NEWLINE", "\n")>>
          [] OTHER -> <<Token("NAME", "pass"), Token("NEWLINE", "\n")>>

\* The indentation level of the statement on line i; tokenize yields
\* INDENT and DEDENT before the first token of a statement only, never for
\* a comment-only or blank line and never inside brackets.
StatementIndent(l) == IF l.kind = "call" THEN 0 ELSE l.indent

RECURSIVE TokensFrom(_, _, _)
TokensFrom(source, i, level) ==
    IF i > Len(source)
    THEN (IF level = 1 THEN <<Token("DEDENT", "")>> ELSE <<>>) \o <<Token("ENDMARKER", "")>>
    ELSE IF source[i].kind \in {"comment", "blank"}
    THEN LineTokens(source, i) \o TokensFrom(source, i + 1, level)
    ELSE (CASE StatementIndent(source[i]) > level -> <<Token("INDENT", "    ")>>
            [] StatementIndent(source[i]) < level -> <<Token("DEDENT", "")>>
            [] OTHER -> <<>>)
         \o LineTokens(source, i)
         \o TokensFrom(source, i + 1, StatementIndent(source[i]))

\* tokenize.generate_tokens over the file of the module.
Tokenize(source) == TokensFrom(source, 1, 0)

DISALLOWED_TOKEN_TYPES == {"INDENT"}
LINE_DELIMITER_TOKEN_TYPES == {"NL", "NEWLINE", "ENDMARKER"}
IGNORED_TOKEN_TYPES == {"DEDENT"}

\* DISALLOWED_TOKEN_TYPE_VALUES and tokenDisallowed(token).
tokenDisallowed(token) ==
    \/ token.type \in DISALLOWED_TOKEN_TYPES
    \/ token.type = "NAME" /\ token.string \in {"from", "import"}

lineStartsWithVariableIdentifier(line) ==
    /\ Len(line) > 1
    /\ line[1].type = "NAME"
    /\ line[2].type = "OP" /\ line[2].string = "="

RECURSIVE lstrip(_, _)
\* str.lstrip(chars): the string without its leading characters in chars.
lstrip(string, chars) ==
    IF string # <<>> /\ string[1] \in chars THEN lstrip(Tail(string), chars) ELSE string

ConfigVariable(name, value, inlineComments, preComments, loadedType) ==
    [name |-> name, value |-> value, inlineComments |-> inlineComments,
     preComments |-> preComments, loadedType |-> loadedType]

\* The type the scanner records for a value: the one that ignores the
\* override of a proxy, and the scanner's.
LoadedType_IgnoresOverride(variableValue) ==
    IF variableValue.k = "override" THEN TypeOf(variableValue.v[2]) ELSE TypeOf(variableValue)

LoadedType(variableValue) ==
    IF variableValue.k = "override" THEN variableValue.v[1] ELSE TypeOf(variableValue)

\* The position of the record of name in moduleVariables, 0 if none.
IndexOf(moduleVariables, name) ==
    IF \E i \in 1..Len(moduleVariables) : moduleVariables[i].name = name
    THEN CHOOSE i \in 1..Len(moduleVariables) : moduleVariables[i].name = name
    ELSE 0

\* moduleVariables with a record for variableName created if none exists.
WithRecord(moduleVariables, module, variableName) ==
    IF IndexOf(moduleVariables, variableName) # 0 THEN moduleVariables
    ELSE Append(moduleVariables,
                ConfigVariable(variableName, module[variableName], <<>>, <<>>,
                               LoadedType(module[variableName])))

\* The lookup without the guard against false positives: it never fails.
LookupFails_Never(module, variableName) == FALSE

\* getattr(module, variableName) raises AttributeError.
LookupFails(module, variableName) ==
    variableName \notin DOMAIN module \/ module[variableName] = Absent

ScanState(moduleVariables, currentLine, commentsQueue, ignoreLine, raised) ==
    [moduleVariables |-> moduleVariables, currentLine |-> currentLine,
     commentsQueue |-> commentsQueue, ignoreLine |-> ignoreLine, raised |-> raised]

\* One iteration of the loop over the tokens.
scanToken(st, token, module) ==
    IF st.ignoreLine
    THEN [st EXCEPT !.ignoreLine = (token.type # "NEWLINE")]
    ELSE IF st.currentLine = <<>> /\ tokenDisallowed(token)
    THEN [st EXCEPT !.ignoreLine = (token.type # "NEWLINE"), !.commentsQueue = <<>>]
    ELSE IF token.type \in LINE_DELIMITER_TOKEN_TYPES
    THEN IF st.currentLine # <<>>
         THEN IF st.currentLine[1].type # "COMMENT"
              THEN IF lineStartsWithVariableIdentifier(st.currentLine)
                   THEN LET variableName == st.currentLine[1].string
                        IN  IF IndexOf(st.moduleVariables, variableName) = 0
                                /\ LookupFails(module, variableName)
                            THEN [st EXCEPT !.commentsQueue = <<>>, !.currentLine = <<>>]
                            ELSE LET recorded == WithRecord(st.moduleVariables, module, variableName)
                                     at == IndexOf(recorded, variableName)
                                 IN  [st EXCEPT
                                        !.moduleVariables =
                                            [recorded EXCEPT ![at].preComments = @ \o st.commentsQueue],
                                        !.commentsQueue = <<>>,
                                        !.currentLine = <<>>]
                   ELSE [st EXCEPT !.commentsQueue = <<>>, !.currentLine = <<>>]
              ELSE [st EXCEPT !.currentLine = <<>>]
         ELSE [st EXCEPT !.commentsQueue = <<>>]
    ELSE IF token.type = "COMMENT"
    THEN IF st.currentLine # <<>>
         THEN IF lineStartsWithVariableIdentifier(st.currentLine)
              THEN LET variableName == st.currentLine[1].string
                   IN  IF IndexOf(st.moduleVariables, variableName) = 0
                                /\ LookupFails(module, variableName)
                       THEN [st EXCEPT !.raised = "AttributeError"]
                       ELSE LET recorded == WithRecord(st.moduleVariables, module, variableName)
                                at == IndexOf(recorded, variableName)
                            IN  [st EXCEPT !.moduleVariables =
                                    [recorded EXCEPT ![at].inlineComments =
                                        Append(@, lstrip(token.string, {"#", " "}))]]
              ELSE st
         ELSE [st EXCEPT !.commentsQueue = Append(@, lstrip(token.string, {"#", " "})),
                         !.currentLine = Append(@, token)]
    ELSE IF token.type \notin IGNORED_TOKEN_TYPES
    THEN [st EXCEPT !.currentLine = Append(@, token)]
    ELSE st

RECURSIVE scanTokens(_, _, _, _)
\* The loop over the tokens from position i on; an exception ends it.
scanTokens(st, tokens, i, module) ==
    IF i > Len(tokens) \/ st.raised # "" THEN st
    ELSE scanTokens(scanToken(st, tokens[i], module), tokens, i + 1, module)

SRet(moduleVariables) == [tag |-> "ok", val |-> moduleVariables]
SRaise(exc) == [tag |-> exc, val |-> <<>>]

\* _partialModuleVariables(module), for the module made by executing source.
_partialModuleVariables(source, module) ==
    LET final == scanTokens(ScanState(<<>>, <<>>, <<>>, FALSE, ""), Tokenize(source), 1, module)
    IN  IF final.raised # "" THEN SRaise(final.raised) ELSE SRet(final.moduleVariables)

InitScan ==
    /\ pc = "start"
    /\ \/ \E source \in SourceExamples :
              call = [op |-> "_partialModuleVariables", source |-> source]
       \/ \E n \in 0..MaxLines : \E source \in [1..n -> TopLines \cup BlockLines] :
              /\ WellFormed(source)
              /\ call = [op |-> "_partialModuleVariables", source |-> source]
    /\ cfgModule = Execute(call.source)
    /\ ret = NoRet
    /\ config = <<>>
    /\ logs = <<>>
    /\ idx = 0

PartialModuleVariables ==
    /\ pc = "start"
    /\ call.op = "_partialModuleVariables"
    /\ ret' = _partialModuleVariables(call.source, cfgModule)
    /\ pc' = IF ret'.tag = "ok" THEN "done" ELSE "raised"
    /\ UNCHANGED <<call, cfgModule, config, logs, idx>>

NextScan == PartialModuleVariables

SpecScan == InitScan /\ [][NextScan]_vars

---------------------------------------------------------------------------
(* BadTypeHandling and the constructors used by the CAST behaviour *)

BadTypeBehaviours == {"REJECT", "KEEP", "CAST"}
ErrorHandlings == {"RAISE", "LOG", "IGNORE"}

BadTypeHandling(behaviour, rejectType, keepFailedCast, logTypeKeeping, logSuccessfulCast) ==
    [behaviour |-> behaviour, rejectType |-> rejectType,
     keepFailedCast |-> keepFailedCast, logTypeKeeping |-> logTypeKeeping,
     logSuccessfulCast |-> logSuccessfulCast, includeExceptionTrace |-> FALSE]

\* BadTypeHandling(): the class attributes.
DefaultBadTypeHandling == BadTypeHandling("CAST", "RAISE", FALSE, TRUE, TRUE)

\* The decimal strings of the model, and the integers they denote.
DecimalStrings == {"0", "1", "2", "3"}
StrToInt(str) == CASE str = "0" -> 0 [] str = "1" -> 1 [] str = "2" -> 2 [] str = "3" -> 3
IntToStr(n) ==
    CASE n = 0 -> "0" [] n = 1 -> "1" [] n = 2 -> "2" [] n = 3 -> "3" [] OTHER -> "<int>"

\* The characters of the strings of the model.
Chars(str) ==
    CASE str = "" -> <<>>
      [] str = "abc" -> <<"a", "b", "c">>
      [] str = "hello" -> <<"h", "e", "l", "l", "o">>
      [] OTHER -> <<str>>

\* bool(value)
Truthy(value) ==
    CASE value.k \in {"int", "float"} -> value.v # 0
      [] value.k = "bool" -> value.v
      [] value.k = "str" -> value.v # ""
      [] value.k \in {"list", "tuple", "set", "dict", "serdict"} -> value.v # <<>>
      [] value.k = "none" -> FALSE
      [] OTHER -> TRUE

\* hash(value) is defined.
Hashable(value) == value.k \notin {"list", "set", "dict", "serdict", "dc"}

RECURSIVE Dedup(_)
\* The elements of a sequence without repetitions, first occurrences kept.
Dedup(seq) ==
    IF seq = <<>> THEN <<>>
    ELSE LET front == Dedup(SubSeq(seq, 1, Len(seq) - 1))
             last == seq[Len(seq)]
         IN IF \E i \in 1..Len(front) : front[i] = last THEN front
            ELSE Append(front, last)

CastOk(value) == [ok |-> TRUE, val |-> value]
CastFails == [ok |-> FALSE, val |-> PyNone]

\* iter(value): the elements a constructor of a collection receives.
IterOf(value) ==
    CASE value.k \in {"list", "tuple", "set"} -> CastOk(PyList(value.v))
      [] value.k \in {"dict", "serdict"} -> CastOk(PyList(Elements(value)))
      [] value.k = "str" ->
            CastOk(PyList([i \in 1..Len(Chars(value.v)) |-> PyStr(Chars(value.v)[i])]))
      [] OTHER -> CastFails

\* T(value) for a class T: the constructed value, or the failure of the call.
Construct(T, value) ==
    CASE T.cat = "dataclass" ->
            IF Len(T.params) = 1 THEN CastOk(SerializableDataClass(
                                          <<Item(PyStr(T.params[1][1]), value)>>))
            ELSE CastFails
      [] T.name = "int" ->
            CASE value.k = "int" -> CastOk(value)
              [] value.k = "bool" -> CastOk(PyInt(IF value.v THEN 1 ELSE 0))
              [] value.k = "float" ->
                    CastOk(PyInt(IF value.v >= 0 THEN value.v \div 2
                                 ELSE -((-value.v) \div 2)))
              [] value.k = "str" ->
                    IF value.v \in DecimalStrings THEN CastOk(PyInt(StrToInt(value.v)))
                    ELSE CastFails
              [] OTHER -> CastFails
      [] T.name = "float" ->
            CASE value.k = "float" -> CastOk(value)
              [] value.k = "int" -> CastOk(PyFloat(2 * value.v))
              [] value.k = "bool" -> CastOk(PyFloat(IF value.v THEN 2 ELSE 0))
              [] value.k = "str" ->
                    IF value.v \in DecimalStrings
                    THEN CastOk(PyFloat(2 * StrToInt(value.v)))
                    ELSE CastFails
              [] OTHER -> CastFails
      [] T.name = "str" ->
            CASE value.k = "str" -> CastOk(value)
              [] value.k = "int" -> CastOk(PyStr(IntToStr(value.v)))
              [] value.k = "bool" -> CastOk(PyStr(IF value.v THEN "True" ELSE "False"))
              [] OTHER -> CastOk(PyStr("<repr>"))
      [] T.name = "bool" -> CastOk(PyBool(Truthy(value)))
      [] T.name = "list" -> IterOf(value)
      [] T.name = "tuple" ->
            IF IterOf(value).ok THEN CastOk(PyTuple(IterOf(value).val.v)) ELSE CastFails
      [] T.name = "set" ->
            IF IterOf(value).ok /\ \A i \in 1..Len(IterOf(value).val.v) :
                                        Hashable(IterOf(value).val.v[i])
            THEN CastOk(PySet(Dedup(IterOf(value).val.v)))
            ELSE CastFails
      [] T.name = "dict" ->
            CASE value.k \in {"dict", "serdict"} -> CastOk(PyDict(value.v))
              [] value.k \in {"list", "tuple", "set"} /\ value.v = <<>> -> CastOk(PyDict(<<>>))
              [] OTHER -> CastFails
      [] T.name = "ser" -> CastOk(MySerializableClass(value))
      [] T.name = "proxy" -> CastOk(SerializableProxy(value))
      [] OTHER -> CastFails

---------------------------------------------------------------------------
(* carica.models.dataclasses: _handleTypeCasts, _deserializeField and      *)
(* SerializableDataClass.deserialize.  An outcome carries the log lines    *)
(* printed on the way and `inp`, the argument as the call leaves it: a     *)
(* dict handed to SerializableDataClass.deserialize is assigned to in      *)
(* place, and the caller holds the same object.                            *)

\* The local _log: log(...) unless _noLog.
Emit(noLog, entry) == IF noLog THEN <<>> ELSE <<entry>>

DRet(value, lg, inp) ==
    [tag |-> "ok", val |-> value, logs |-> lg, inp |-> inp, path |-> <<>>]

DRaise(exc, lg, inp, path) ==
    [tag |-> exc, val |-> PyNone, logs |-> lg, inp |-> inp, path |-> path]

\* _handleTypeCasts for a single possible type.  A branch that neither
\* returns nor raises falls off the end of the function: None.
_handleTypeCasts(serializedValue, fieldName, possibleType, c_badTypeHandling, noLog) ==
    IF IsInstance(serializedValue, possibleType) THEN DRet(serializedValue, <<>>, serializedValue)
    ELSE IF c_badTypeHandling.behaviour = "CAST" THEN
        IF Construct(possibleType, serializedValue).ok THEN
            DRet(Construct(possibleType, serializedValue).val,
                 IF c_badTypeHandling.logSuccessfulCast
                 THEN Emit(noLog, LogEntry("castOk", fieldName, TRUE)) ELSE <<>>,
                 serializedValue)
        ELSE IF c_badTypeHandling.keepFailedCast THEN
            DRet(serializedValue,
                 IF c_badTypeHandling.logTypeKeeping
                 THEN Emit(noLog, LogEntry("keepFailedCast", fieldName, TRUE)) ELSE <<>>,
                 serializedValue)
        ELSE IF c_badTypeHandling.rejectType = "RAISE" THEN
            DRaise("TypeError", <<>>, serializedValue, <<>>)
        ELSE IF c_badTypeHandling.rejectType = "LOG" THEN
            DRet(PyNone, Emit(noLog, LogEntry("castFailed", fieldName, TRUE)), serializedValue)
        ELSE DRet(PyNone, <<>>, serializedValue)
    ELSE IF c_badTypeHandling.behaviour = "KEEP" THEN
        DRet(serializedValue,
             IF c_badTypeHandling.logTypeKeeping
             THEN Emit(noLog, LogEntry("keep", fieldName, TRUE)) ELSE <<>>,
             serializedValue)
    ELSE IF c_badTypeHandling.rejectType = "RAISE" THEN
        DRaise("TypeError", <<>>, serializedValue, <<>>)
    ELSE IF c_badTypeHandling.rejectType = "LOG" THEN
        DRet(PyNone, Emit(noLog, LogEntry("reject", fieldName, FALSE)), serializedValue)
    ELSE DRet(PyNone, <<>>, serializedValue)

\* data[key] as the deserialize of a test class evaluates it.
Subscript(data, key) ==
    IF data.k \in {"dict", "serdict"} THEN
        IF \E i \in 1..Len(data.v) : data.v[i][1] = key
        THEN DRet(data.v[CHOOSE i \in 1..Len(data.v) : data.v[i][1] = key][2], <<>>, data)
        ELSE DRaise("KeyError", <<>>, data, <<>>)
    ELSE DRaise("TypeError", <<>>, data, <<>>)

\* The value of mapping d with the value of its i-th item replaced.
WithItem(d, i, value) == [d EXCEPT !.v[i] = Item(d.v[i][1], value)]

\* The value of collection c with its i-th element replaced.
WithElement(c, i, value) == [c EXCEPT !.v[i] = value]

\* The hint of the field of cls named by key.
FieldType(cls, key) ==
    cls.params[CHOOSE i \in 1..Len(cls.params) : cls.params[i][1] = key.v][2]

\* cls(**data): every field is required and no other keyword is accepted.
ConstructFromDict(cls, data) ==
    IF {data.v[i][1] : i \in 1..Len(data.v)} = {FieldNames(cls)[i] : i \in 1..Len(cls.params)}
    THEN CastOk(SerializableDataClass(
             [i \in 1..Len(cls.params) |->
                 Item(FieldNames(cls)[i], Subscript(data, FieldNames(cls)[i]).val)]))
    ELSE CastFails

\* The final statement of _deserializeField.
NonSerializableHint(lg, inp) == DRaise("TypeError", lg, inp, <<>>)

RECURSIVE _deserializeField(_, _, _, _, _, _, _)
RECURSIVE deserializeUnion(_, _, _, _, _, _, _, _)
RECURSIVE deserializeDictItems(_, _, _, _, _, _, _, _)
RECURSIVE deserializeElements(_, _, _, _, _, _, _, _)
RECURSIVE deserializeFields(_, _, _, _, _, _, _)
RECURSIVE ClassDeserialize(_, _, _, _, _)

\* The loop over the members of a Union, from member i on, and the code
\* after the loop.  Each member is probed with _noLog set; after a probe
\* that returns, the call is made again with the defaults of _noLog and
\* deserializeSerializable, and its outcome is the outcome of the Union.
deserializeUnion(fieldName, fieldType, i, serializedValue, c_variableTrace, c_badTypeHandling, noLog, lg) ==
    IF i > Len(fieldType.params) THEN
        IF c_badTypeHandling.behaviour = "KEEP" THEN
            DRet(serializedValue,
                 lg \o (IF c_badTypeHandling.logTypeKeeping
                        THEN Emit(noLog, LogEntry("keep", fieldName, TRUE)) ELSE <<>>),
                 serializedValue)
        ELSE IF c_badTypeHandling.rejectType = "RAISE" THEN
            DRaise("TypeError", lg, serializedValue, <<>>)
        ELSE IF c_badTypeHandling.rejectType = "LOG" THEN
            NonSerializableHint(lg \o Emit(noLog, LogEntry("reject", fieldName, FALSE)),
                                serializedValue)
        ELSE NonSerializableHint(lg, serializedValue)
    ELSE IF fieldType.params[i] = NoneType THEN
        deserializeUnion(fieldName, fieldType, i + 1, serializedValue, c_variableTrace,
                         c_badTypeHandling, noLog, lg)
    ELSE
        LET probe == _deserializeField(fieldName, fieldType.params[i], serializedValue,
                                       c_variableTrace, c_badTypeHandling, TRUE, TRUE)
        IN  IF probe.tag # "ok" THEN
                deserializeUnion(fieldName, fieldType, i + 1, probe.inp, c_variableTrace,
                                 c_badTypeHandling, noLog, lg \o probe.logs)
            ELSE
                LET again == _deserializeField(fieldName, fieldType.params[i], probe.inp,
                                               c_variableTrace, c_badTypeHandling, FALSE, TRUE)
                IN  [again EXCEPT !.logs = lg \o probe.logs \o @]

\* The loop over the items of a dict typed Dict[str, valueType].
deserializeDictItems(fieldName, valueType, serializedValue, i, newValue, c_variableTrace, c_badTypeHandling, lg) ==
    IF i > Len(serializedValue.v) THEN DRet(PyDict(newValue), lg, serializedValue)
    ELSE
        LET r == _deserializeField(fieldName, valueType, serializedValue.v[i][2],
                                   Append(c_variableTrace, serializedValue.v[i][1]),
                                   c_badTypeHandling, FALSE, TRUE)
        IN  IF r.tag # "ok" THEN
                DRaise(r.tag, lg \o r.logs, WithItem(serializedValue, i, r.inp), r.path)
            ELSE
                deserializeDictItems(fieldName, valueType, WithItem(serializedValue, i, r.inp),
                                     i + 1, Append(newValue, Item(serializedValue.v[i][1], r.val)),
                                     c_variableTrace, c_badTypeHandling, lg \o r.logs)

\* The generator over the elements of a list, set or tuple.
deserializeElements(fieldName, elementType, serializedValue, i, built, c_variableTrace, c_badTypeHandling, lg) ==
    IF i > Len(serializedValue.v) THEN DRet(PyList(built), lg, serializedValue)
    ELSE
        LET r == _deserializeField(fieldName, elementType, serializedValue.v[i],
                                   Append(c_variableTrace, PyInt(i - 1)),
                                   c_badTypeHandling, FALSE, TRUE)
        IN  IF r.tag # "ok" THEN
                DRaise(r.tag, lg \o r.logs, WithElement(serializedValue, i, r.inp), r.path)
            ELSE
                deserializeElements(fieldName, elementType, WithElement(serializedValue, i, r.inp),
                                    i + 1, Append(built, r.val),
                                    c_variableTrace, c_badTypeHandling, lg \o r.logs)

\* The loop of SerializableDataClass.deserialize over data.items(), from
\* item i on, then cls(**data).  data[k] is assigned in place.
deserializeFields(cls, data, i, deserializeValues, c_variableTrace, c_badTypeHandling, lg) ==
    IF i > Len(data.v) THEN
        IF ConstructFromDict(cls, data).ok
        THEN DRet(ConstructFromDict(cls, data).val, lg, data)
        ELSE DRaise("TypeError", lg, data, <<>>)
    ELSE IF ~IsStr(data.v[i][1]) THEN
        DRaise("NonStringMappingKey", lg, data, c_variableTrace)
    ELSE IF \A j \in 1..Len(cls.params) : FieldNames(cls)[j] # data.v[i][1] THEN
        DRaise("KeyError", lg, data, <<>>)
    ELSE
        LET r == _deserializeField(data.v[i][1].v, FieldType(cls, data.v[i][1]), data.v[i][2],
                                   Append(c_variableTrace, data.v[i][1]),
                                   c_badTypeHandling, FALSE, deserializeValues)
        IN  IF r.tag # "ok" THEN
                DRaise(r.tag, lg \o r.logs, WithItem(data, i, r.inp), r.path)
            ELSE
                deserializeFields(cls, WithItem(data, i, r.val), i + 1, deserializeValues,
                                  c_variableTrace, c_badTypeHandling, lg \o r.logs)

\* cls.deserialize(data, deserializeValues, c_variableTrace, c_badTypeHandling)
\* of each Serializable class; the test classes ignore the keyword arguments.
ClassDeserialize(cls, data, deserializeValues, c_variableTrace, c_badTypeHandling) ==
    CASE cls.cat = "dataclass" ->
            IF ~IsInstance(data, TClass("dict")) THEN DRaise("TypeError", <<>>, data, <<>>)
            ELSE deserializeFields(cls, data, 1, deserializeValues, c_variableTrace,
                                   c_badTypeHandling, <<>>)
      [] cls.name = "ser" ->
            IF Subscript(data, PyStr("myField")).tag = "ok"
            THEN DRet(MySerializableClass(Subscript(data, PyStr("myField")).val), <<>>, data)
            ELSE Subscript(data, PyStr("myField"))
      [] cls.name = "serdict" ->
            IF Subscript(data, PyStr("wrapped")).tag = "ok"
               /\ IsMapping(Subscript(data, PyStr("wrapped")).val)
            THEN DRet(SerializableDict(Subscript(data, PyStr("wrapped")).val.v), <<>>, data)
            ELSE DRaise("TypeError", <<>>, data, <<>>)
      [] OTHER -> DRet(SerializableProxy(data), <<>>, data)

\* _deserializeField(fieldName, fieldType, serializedValue, c_variableTrace,
\* c_badTypeHandling, _noLog, deserializeSerializable).  No caller in the
\* library passes further keyword arguments, so a Serializable field type
\* is deserialized with the defaults of its deserialize method.
_deserializeField(fieldName, fieldType, serializedValue, c_variableTrace, c_badTypeHandling, noLog, deserializeSerializable) ==
    IF fieldType.cat = "any" THEN DRet(serializedValue, <<>>, serializedValue)
    ELSE IF fieldType.cat = "union" THEN
        IF Len(fieldType.params) = 0 THEN DRaise("TypeError", <<>>, serializedValue, <<>>)
        ELSE IF (\E i \in 1..Len(fieldType.params) : fieldType.params[i] = NoneType)
                /\ serializedValue.k = "none"
        THEN DRet(PyNone, <<>>, serializedValue)
        ELSE deserializeUnion(fieldName, fieldType, 1, serializedValue, c_variableTrace,
                              c_badTypeHandling, noLog, <<>>)
    ELSE IF IsType(fieldType) THEN
        IF IsSerializableClass(fieldType) THEN
            IF deserializeSerializable
            THEN ClassDeserialize(fieldType, serializedValue, TRUE, <<>>, DefaultBadTypeHandling)
            ELSE DRet(serializedValue, <<>>, serializedValue)
        ELSE IF IsPrimativeClass(fieldType) THEN
            IF IsInstance(serializedValue, fieldType)
            THEN _handleTypeCasts(serializedValue, fieldName, fieldType, c_badTypeHandling, FALSE)
            ELSE DRaise("TypeError", <<>>, serializedValue, <<>>)
        ELSE NonSerializableHint(<<>>, serializedValue)
    ELSE IF fieldType.cat = "generic" /\ fieldType.name = "dict" THEN
        IF ~IsInstance(serializedValue, TClass("dict")) THEN
            DRaise("TypeError", <<>>, serializedValue, <<>>)
        ELSE IF Len(fieldType.params) = 0 THEN
            DRaise("TypeError", <<>>, serializedValue, <<>>)
        ELSE IF IsType(fieldType.params[1]) /\ fieldType.params[1] # TClass("str") THEN
            DRaise("NonStringMappingKey", <<>>, serializedValue, c_variableTrace)
        ELSE deserializeDictItems(fieldName, fieldType.params[2], serializedValue, 1, <<>>,
                                  c_variableTrace, c_badTypeHandling, <<>>)
    ELSE IF fieldType.cat = "generic" /\ fieldType.name \in {"list", "set", "tuple"} THEN
        IF serializedValue.k \notin {"list", "set", "tuple"} THEN
            DRaise("TypeError", <<>>, serializedValue, <<>>)
        ELSE IF Len(fieldType.params) = 0 THEN
            DRaise("TypeError", <<>>, serializedValue, <<>>)
        ELSE IF Len(fieldType.params) > 1 /\ fieldType.params[2] # TEllipsis THEN
            DRaise("TypeError", <<>>, serializedValue, <<>>)
        ELSE
            LET built == deserializeElements(fieldName, fieldType.params[1], serializedValue, 1,
                                             <<>>, c_variableTrace, c_badTypeHandling, <<>>)
            IN  IF built.tag # "ok" THEN built
                ELSE IF ~Construct(TClass(fieldType.name), built.val).ok
                THEN DRaise("TypeError", built.logs, built.inp, <<>>)
                ELSE DRet(Construct(TClass(fieldType.name), built.val).val, built.logs, built.inp)
    ELSE NonSerializableHint(<<>>, serializedValue)

---------------------------------------------------------------------------
(* carica.loadCfg: the body of the loop over the names of the document *)

\* The outcome of one iteration: `known` tells whether setattr is reached.
LRet(value, lg, known) == [tag |-> "ok", val |-> value, logs |-> lg, known |-> known]
LRaise(exc, lg) == [tag |-> exc, val |-> PyNone, logs |-> lg, known |-> FALSE]

\* varName in defaults
InDefaults(varName, defaults) == \E i \in 1..Len(defaults) : defaults[i].name = varName

\* defaults[varName]
DefaultOf(varName, defaults) ==
    defaults[CHOOSE i \in 1..Len(defaults) : defaults[i].name = varName]

\* NameHandling with RAISE handled as LOG.
NameHandling_RaiseLogs(varName, defaults, badNameHandling) ==
    IF InDefaults(varName, defaults) THEN "known"
    ELSE IF badNameHandling \in {"RAISE", "LOG"} THEN "log"
    ELSE "skip"

\* The test of the attribute name and the three ways of handling a name
\* that is not in defaults.
NameHandling(varName, defaults, badNameHandling) ==
    IF InDefaults(varName, defaults) THEN "known"
    ELSE IF badNameHandling = "RAISE" THEN "raise"
    ELSE IF badNameHandling = "LOG" THEN "log"
    ELSE "skip"

\* CastValue with the document value stored as it is.
CastValue_NoCast(defaultType, newValue) == CastOk(newValue)

\* defaultType(newValue) inside the try block of the CAST branch.
CastValue(defaultType, newValue) == Construct(defaultType, newValue)

\* The branch taken when newValue is not an instance of defaultType.
handleMismatch(varName, defaultType, newValue, badTypeHandling, lg) ==
    IF badTypeHandling.behaviour = "REJECT" THEN
        IF badTypeHandling.rejectType = "RAISE" THEN LRaise("TypeError", lg)
        ELSE IF badTypeHandling.behaviour = "LOG"
        THEN LRet(newValue, Append(lg, LogEntry("reject", varName, TRUE)), TRUE)
        ELSE LRet(newValue, lg, TRUE)
    ELSE IF badTypeHandling.behaviour = "CAST" THEN
        IF CastValue(defaultType, newValue).ok THEN
            LRet(CastValue(defaultType, newValue).val,
                 IF badTypeHandling.logSuccessfulCast
                    /\ TypeOf(CastValue(defaultType, newValue).val).name # defaultType.name
                 THEN Append(lg, LogEntry("castOk", varName, TRUE)) ELSE lg,
                 TRUE)
        ELSE IF badTypeHandling.keepFailedCast THEN
            LRet(newValue,
                 IF badTypeHandling.logTypeKeeping
                 THEN Append(lg, LogEntry("keepFailedCast", varName, TRUE)) ELSE lg,
                 TRUE)
        ELSE IF badTypeHandling.rejectType = "RAISE" THEN LRaise("TypeError", lg)
        ELSE IF badTypeHandling.rejectType = "LOG"
        THEN LRet(newValue, Append(lg, LogEntry("castFailed", varName, TRUE)), TRUE)
        ELSE LRet(newValue, lg, TRUE)
    ELSE
        LRet(newValue,
             IF badTypeHandling.logTypeKeeping
             THEN Append(lg, LogEntry("keep", varName, TRUE)) ELSE lg,
             TRUE)

\* The delegation with the exception held back unless rejectType is RAISE.
DelegateDeserialize_PolicyGuarded(defaultType, varName, newValue, badTypeHandling) ==
    LET des == ClassDeserialize(defaultType, newValue, TRUE, <<PyStr(varName)>>, badTypeHandling)
    IN  IF des.tag # "ok" /\ badTypeHandling.rejectType # "RAISE"
        THEN DRet(newValue, des.logs, newValue)
        ELSE des

\* defaultType.deserialize(newValue, c_badTypeHandling=badTypeHandling,
\* c_variableTrace=[varName]); an exception is not caught.
DelegateDeserialize(defaultType, varName, newValue, badTypeHandling) ==
    ClassDeserialize(defaultType, newValue, TRUE, <<PyStr(varName)>>, badTypeHandling)

\* One iteration of the loop, for the document item varName = newValue.
\* issubclass(defaultType, SerializableType) raises TypeError when the
\* recorded type is a typing hint and not a class.
loadVariable(varName, newValue, defaults, badTypeHandling, badNameHandling) ==
    CASE NameHandling(varName, defaults, badNameHandling) = "raise" -> LRaise("NameError", <<>>)
      [] NameHandling(varName, defaults, badNameHandling) = "log" ->
            LRet(newValue, <<LogEntry("unknownName", varName, TRUE)>>, FALSE)
      [] NameHandling(varName, defaults, badNameHandling) = "skip" -> LRet(newValue, <<>>, FALSE)
      [] OTHER ->
            LET defaultType == DefaultOf(varName, defaults).loadedType
            IN  IF ~IsType(defaultType) THEN LRaise("TypeError", <<>>)
                ELSE IF IsSerializableClass(defaultType) THEN
                    LET des == DelegateDeserialize(defaultType, varName, newValue, badTypeHandling)
                    IN  IF des.tag # "ok" THEN LRaise(des.tag, des.logs)
                        ELSE IF IsInstance(des.val, defaultType) THEN LRet(des.val, des.logs, TRUE)
                        ELSE handleMismatch(varName, defaultType, des.val, badTypeHandling,
                                            des.logs)
                ELSE IF IsInstance(newValue, defaultType) THEN LRet(newValue, <<>>, TRUE)
                ELSE handleMismatch(varName, defaultType, newValue, badTypeHandling, <<>>)

\* The loop without the final setattr: the module is left as it is.
SetAttr_Skipped(module, varName, newValue) == module

\* setattr(cfgModule, varName, newValue)
SetAttr(module, varName, newValue) ==
    [n \in DOMAIN module \cup {varName} |-> IF n = varName THEN newValue ELSE module[n]]

---------------------------------------------------------------------------
(* Loading a document into a module: a document written by the user, or   *)
(* the document that makeDefaultCfg has just written for the module.      *)

\* The greatest number of names in a document.
MaxDocLen == 2

\* The declarations of x in the module: the default and the recorded type.
\* Sources scanned for the module's table: x = TypeOverride(float, 1), and
\* x = 1 followed by x = 2.
ScannedSources ==
    { <<SourceLine("override", "x", 0, FALSE)>>,
      <<SourceLine("assign", "x", 0, FALSE), SourceLine("assign", "x", 0, FALSE)>> }

\* defaults = _partialModuleVariables(cfgModule): the record of x in the
\* table scanned from the module that executing source gives.
ScannedVariable(source) ==
    LET table == _partialModuleVariables(source, Execute(source)).val
        record == table[IndexOf(table, "x")]
    IN  Variable("x", record.value, record.loadedType)

XVariables ==
    {ScannedVariable(source) : source \in ScannedSources} \cup
    { Variable("x", PyInt(2), TClass("int")),
      Variable("x", PyStr("hello"), TClass("str")),
      Variable("x", PyFloat(3), TClass("float")),
      Variable("x", PyTuple(<<PyInt(1), PyInt(2)>>), TClass("tuple")),
      Variable("x", MySerializableClass(PyStr("hello")), TClass("ser")),
      Variable("x", MyNonSerializableType, TClass("obj")),
      Variable("x", SerializableDataClass(<<Item(PyStr("intVar"), PyInt(1))>>),
               TDataClass(<< <<"intVar", TClass("int")>> >>)) }

\* The module also declares y = 0.
YVariable == Variable("y", PyInt(0), TClass("int"))

\* The values the document gives to x, to y and to the undeclared z.
XValues ==
    { PyInt(3), PyStr("3"), PyStr("abc"), PyList(<<PyInt(1), PyInt(2)>>),
      PyDict(<<Item(PyStr("myField"), PyStr("abc"))>>),
      PyDict(<<Item(PyStr("intVar"), PyInt(3))>>) }

DocItems ==
    {Item("x", value) : value \in XValues}
        \cup {Item("y", PyStr("abc")), Item("z", PyInt(1))}

\* The documents: at most MaxDocLen items, no name twice.
Documents ==
    UNION { {doc \in [1..n -> DocItems] :
                \A i, j \in 1..n : doc[i][1] = doc[j][1] => i = j} : n \in 1..MaxDocLen }

BadTypeHandlings ==
    [behaviour : BadTypeBehaviours, rejectType : ErrorHandlings, keepFailedCast : BOOLEAN,
     logTypeKeeping : BOOLEAN, logSuccessfulCast : BOOLEAN, includeExceptionTrace : {FALSE}]

\* The values whose default document is written and loaded back.
RoundTripValues ==
    { PyInt(1), PyStr("a"), PyFloat(3), PyBool(TRUE), PyBool(FALSE), PyStr(""),
      PyList(<<>>), PyList(<<PyInt(1), PyInt(2)>>), PyList(<<PyStr("a"), PyInt(1)>>),
      PyTuple(<<PyInt(1), PyInt(2)>>), PyTuple(<<>>),
      PySet(<<PyInt(1), PyInt(2)>>), PySet(<<PyStr("a")>>),
      PyDict(<<>>), PyDict(<<Item(PyStr("a"), PyInt(1)), Item(PyStr("b"), PyStr("a"))>>),
      MySerializableClass(PyStr("hello")), MySerializableClass(PyInt(1)),
      SerializableProxy(PyStr("a")),
      SerializableDataClass(<<>>),
      SerializableDataClass(<<Item(PyStr("intVar"), PyInt(1))>>),
      SerializableDataClass(<<Item(PyStr("intVar"), PyInt(1)), Item(PyStr("strVar"), PyStr("a"))>>),
      PyList(<<PySet(<<PyInt(1)>>)>>), PyList(<<PyTuple(<<PyInt(1)>>)>>),
      MySerializableClass(PyTuple(<<PyInt(1)>>)), MyNonSerializableType, PyNone }

\* The policies of a call: every bad-type policy under the default name
\* handling, and the policies with the default flags under LOG and IGNORE.
LoadPolicies ==
    {<<b, "RAISE">> : b \in BadTypeHandlings}
        \cup {<<b, n>> : b \in {h \in BadTypeHandlings : h.keepFailedCast = FALSE
                                    /\ h.logTypeKeeping /\ h.logSuccessfulCast},
                         n \in {"LOG", "IGNORE"}}

LoadCall(defaults, policy) ==
    [op |-> "loadCfg", defaults |-> defaults,
     badTypeHandling |-> policy[1], badNameHandling |-> policy[2]]

InitLoad ==
    /\ pc = "start"
    /\ ret = NoRet
    /\ logs = <<>>
    /\ idx = 0
    /\ \/ /\ call \in {LoadCall(<<x, YVariable>>, policy) :
                           x \in XVariables, policy \in LoadPolicies}
          /\ config \in Documents
          /\ cfgModule = Module(call.defaults)
       \/ /\ call \in [op : {"makeDefaultCfg"}, o : RoundTripValues,
                       path : {<<PyStr("x")>>}, depthLimit : {DefaultDepthLimit}]
          /\ config = <<>>
          /\ cfgModule = Module(<<Variable("x", call.o, TypeOf(call.o))>>)

\* loadCfg(cfgModule, cfgFile, badTypeHandling, badNameHandling) up to the
\* loop: the document is read and the module is scanned.
LoadCfg ==
    /\ pc = "start"
    /\ call.op = "loadCfg"
    /\ pc' = "loading"
    /\ idx' = 1
    /\ UNCHANGED <<call, ret, cfgModule, config, logs>>

\* loadCfg(cfgModule, cfgFile) of the file that makeDefaultCfg has written,
\* with the default policies; the scan records type(value) for x.
LoadDefaultCfg ==
    /\ pc = "done"
    /\ call.op = "makeDefaultCfg"
    /\ ret.tag = "ok"
    /\ call' = [LoadCall(<<Variable("x", call.o, TypeOf(call.o))>>,
                         <<DefaultBadTypeHandling, "RAISE">>) EXCEPT !.op = "loadDefaultCfg"]
    /\ pc' = "loading"
    /\ idx' = 1
    /\ UNCHANGED <<ret, cfgModule, config, logs>>

\* The loop with the module restored when a name raises: all or nothing.
LoadCfgStep_AllOrNothing ==
    /\ pc = "loading"
    /\ idx <= Len(config)
    /\ \E r \in {loadVariable(config[idx][1], config[idx][2], call.defaults,
                              call.badTypeHandling, call.badNameHandling)} :
           /\ logs' = logs \o r.logs
           /\ IF r.tag # "ok"
              THEN /\ pc' = "raised"
                   /\ ret' = Raise(r.tag, PyNone, 0, <<>>, 0)
                   /\ cfgModule' = Module(call.defaults)
                   /\ UNCHANGED idx
              ELSE /\ cfgModule' = IF r.known THEN SetAttr(cfgModule, config[idx][1], r.val)
                                   ELSE cfgModule
                   /\ idx' = idx + 1
                   /\ UNCHANGED <<pc, ret>>
    /\ UNCHANGED <<call, config>>

\* One iteration of `for varName in config`.
LoadCfgStep ==
    /\ pc = "loading"
    /\ idx <= Len(config)
    /\ \E r \in {loadVariable(config[idx][1], config[idx][2], call.defaults,
                              call.badTypeHandling, call.badNameHandling)} :
           /\ logs' = logs \o r.logs
           /\ IF r.tag # "ok"
              THEN /\ pc' = "raised"
                   /\ ret' = Raise(r.tag, PyNone, 0, <<>>, 0)
                   /\ UNCHANGED <<cfgModule, idx>>
              ELSE /\ cfgModule' = IF r.known THEN SetAttr(cfgModule, config[idx][1], r.val)
                                   ELSE cfgModule
                   /\ idx' = idx + 1
                   /\ UNCHANGED <<pc, ret>>
    /\ UNCHANGED <<call, config>>

\* The end of loadCfg: no error was encountered.
LoadCfgEnd ==
    /\ pc = "loading"
    /\ idx > Len(config)
    /\ pc' = "loaded"
    /\ logs' = Append(logs, LogEntry("loaded", "", FALSE))
    /\ UNCHANGED <<call, ret, cfgModule, config, idx>>

NextLoad == MakeDefaultCfg \/ LoadDefaultCfg \/ LoadCfg \/ LoadCfgStep \/ LoadCfgEnd

SpecLoad == InitLoad /\ [][NextLoad]_vars

---------------------------------------------------------------------------
(* carica.models.SerializableTimedelta.  A timedelta holds days, seconds  *)
(* and microseconds, normalised by its constructor: 0 <= seconds < 86400  *)
(* and 0 <= microseconds < 1000000; days may be negative.                 *)

MaxDays == 8

Timedelta(days, seconds, microseconds) ==
    [k |-> "timedelta", v |-> <<days, seconds, microseconds>>]

\* The units of a serialized timedelta, in the order serialize writes them.
TimedeltaUnits ==
    <<"weeks", "days", "hours", "minutes", "seconds", "milliseconds", "microseconds">>

\* data[unit] of a dict with string keys and integer values, 0 if missing
\* (the default of each keyword of the timedelta constructor).
UnitOf(data, unit) ==
    IF \E i \in 1..Len(data.v) : data.v[i][1] = PyStr(unit)
    THEN data.v[CHOOSE i \in 1..Len(data.v) : data.v[i][1] = PyStr(unit)][2].v
    ELSE 0

\* timedelta(**data): the units are summed and normalised, the carry of
\* the microseconds going to the seconds and that of the seconds to the days.
TimedeltaOf(data) ==
    LET us == UnitOf(data, "milliseconds") * 1000 + UnitOf(data, "microseconds")
        s  == UnitOf(data, "hours") * 3600 + UnitOf(data, "minutes") * 60
                + UnitOf(data, "seconds") + (us \div 1000000)
        d  == UnitOf(data, "weeks") * 7 + UnitOf(data, "days") + (s \div 86400)
    IN  Timedelta(d, s % 86400, us % 1000000)

\* serialize with the weeks taken by floor division for every day count.
TimedeltaSerialize_FloorWeeks(self) ==
    LET weeks == self.v[1] \div 7
        hours == self.v[2] \div 3600
        milliseconds == self.v[3] \div 1000
    IN  PyDict(<< Item(PyStr("weeks"), PyInt(weeks)),
                  Item(PyStr("days"), PyInt(self.v[1] - weeks * 7)),
                  Item(PyStr("hours"), PyInt(hours)),
                  Item(PyStr("minutes"), PyInt((self.v[2] % 3600) \div 60)),
                  Item(PyStr("seconds"), PyInt(self.v[2] % 60)),
                  Item(PyStr("milliseconds"), PyInt(milliseconds)),
                  Item(PyStr("microseconds"), PyInt(self.v[3] % 1000)) >>)

\* SerializableTimedelta.serialize(self)
TimedeltaSerialize(self) ==
    LET selfDays == self.v[1]
        selfSeconds == self.v[2]
        selfMicroseconds == self.v[3]
        weeks == IF selfDays < 7 THEN 0 ELSE selfDays \div 7
        days == selfDays - weeks * 7
        hours == IF selfSeconds < 3600 THEN 0 ELSE selfSeconds \div 3600
        seconds == selfSeconds - hours * 3600
        minutes == IF seconds < 60 THEN 0 ELSE seconds \div 60
        milliseconds == IF selfMicroseconds < 1000 THEN 0 ELSE selfMicroseconds \div 1000
    IN  PyDict(<< Item(PyStr("weeks"), PyInt(weeks)),
                  Item(PyStr("days"), PyInt(days)),
                  Item(PyStr("hours"), PyInt(hours)),
                  Item(PyStr("minutes"), PyInt(minutes)),
                  Item(PyStr("seconds"), PyInt(seconds - minutes * 60)),
                  Item(PyStr("milliseconds"), PyInt(milliseconds)),
                  Item(PyStr("microseconds"), PyInt(selfMicroseconds - milliseconds * 1000)) >>)

\* SerializableTimedelta.deserialize(data)
TimedeltaDeserialize(data) ==
    IF ~IsInstance(data, TClass("dict")) THEN DRaise("TypeError", <<>>, data, <<>>)
    ELSE IF \E i \in 1..Len(data.v) :
                \A u \in 1..Len(TimedeltaUnits) : data.v[i][1] # PyStr(TimedeltaUnits[u])
    THEN DRaise("TypeError", <<>>, data, <<>>)
    ELSE DRet(TimedeltaOf(data), <<>>, data)

\* The timedeltas considered: every day count up to MaxDays either way,
\* and the times of day and fractions around the unit boundaries.
SecondsOfDay == {h * 3600 + mi * 60 + s : h \in {0, 1, 23}, mi \in {0, 1, 59}, s \in {0, 1, 59}}
MicrosecondsOfSecond == {ms * 1000 + us : ms \in {0, 1, 999}, us \in {0, 1, 999}}

Timedeltas ==
    {Timedelta(d, s, us) : d \in (0 - MaxDays)..MaxDays, s \in SecondsOfDay,
                           us \in MicrosecondsOfSecond}

\* What deserialize is handed by the tests that call it directly.
SerializedExamples ==
    { PyDict(<<Item(PyStr("weeks"), PyInt(1)), Item(PyStr("days"), PyInt(9))>>),
      PyDict(<<Item(PyStr("hours"), PyInt(25)), Item(PyStr("seconds"), PyInt(86400))>>),
      PyDict(<<Item(PyStr("milliseconds"), PyInt(1001)), Item(PyStr("microseconds"), PyInt(1000))>>),
      PyDict(<<Item(PyStr("years"), PyInt(1))>>),
      PyStr("1 day") }

InitTimedelta ==
    /\ pc = "start"
    /\ call \in [op : {"serialize"}, self : Timedeltas]
                    \cup [op : {"deserialize"}, data : SerializedExamples]
    /\ ret = NoRet
    /\ cfgModule = <<>>
    /\ config = <<>>
    /\ logs = <<>>
    /\ idx = 0

\* td.serialize()
SerializeTimedelta ==
    /\ pc = "start"
    /\ call.op = "serialize"
    /\ ret' = DRet(TimedeltaSerialize(call.self), <<>>, call.self)
    /\ pc' = "serialized"
    /\ UNCHANGED <<call, cfgModule, config, logs, idx>>

\* SerializableTimedelta.deserialize(data), of the data just serialized or
\* of the data of the call.
DeserializeTimedelta ==
    /\ \/ pc = "serialized" /\ ret' = TimedeltaDeserialize(ret.val)
       \/ pc = "start" /\ call.op = "deserialize" /\ ret' = TimedeltaDeserialize(call.data)
    /\ pc' = IF ret'.tag = "ok" THEN "done" ELSE "raised"
    /\ UNCHANGED <<call, cfgModule, config, logs, idx>>

NextTimedelta == SerializeTimedelta \/ DeserializeTimedelta

SpecTimedelta == InitTimedelta /\ [][NextTimedelta]_vars

---------------------------------------------------------------------------
(* Properties of the serializer *)

SerDone == pc = "done" /\ call.op \in {"_serialize", "makeDefaultCfg"}

\* The outcome of a call without the instrumentation.
Outcome(r) == [tag |-> r.tag, val |-> r.val, path |-> r.path, depth |-> r.depth]

RECURSIVE Hops(_)
\* The number of serialize() hops of a chain of proxies, and the value at its end.
Hops(o) == IF o.k = "proxy" THEN 1 + Hops(o.v) ELSE 0

RECURSIVE Core(_)
Core(o) == IF o.k = "proxy" THEN Core(o.v) ELSE o

Markers(n) == [i \in 1..n |-> SerializeMarker]

\* C2: _serialize dispatches on the first matching case in the order
\* Serializable, mapping, non-string iterable, primitive scalar, error.  A
\* Serializable is replaced by the serialization of what its serialize()
\* returns, one "[serialize]" marker being appended to the path per hop; a
\* primitive scalar is returned unchanged; a value matching no case fails with
\* NonSerializableObject at the current path.
Thm_C2_DispatchOrder ==
    (SerDone /\ ~(Len(call.path) > call.depthLimit)) =>
        LET o == call.o IN
        /\ (IsSerializable(o) /\ CallSerialize(o).tag = "ok") =>
              /\ Outcome(ret) = Outcome(_serialize(CallSerialize(o).val,
                                   Append(call.path, SerializeMarker), call.depthLimit))
              /\ ret.reached >= Len(call.path) + 1
        /\ (o.k = "serdict" /\ ret.tag = "ok") => Keys(ret.val) = <<PyStr("wrapped")>>
        /\ (Core(o).k \in {"obj", "none"} /\ Len(call.path) + Hops(o) <= call.depthLimit) =>
              /\ ret.tag = "NonSerializableObject"
              /\ ret.val = Core(o)
              /\ ret.path = call.path \o Markers(Hops(o))
        /\ (~IsSerializable(o) /\ IsMapping(o) /\ ret.tag = "ok") =>
              ret.val.k = "dict" /\ Len(ret.val.v) = Len(o.v)
        /\ (o.k \in {"list", "tuple", "set"} /\ ret.tag = "ok") =>
              ret.val.k = "list" /\ Len(ret.val.v) = Len(o.v)
        /\ (o.k \in {"int", "float", "str", "bool"}) => Outcome(ret) = Outcome(Return(o, 0))
        /\ (o.k \in {"obj", "none"}) =>
              Outcome(ret) = Outcome(Raise("NonSerializableObject", o,
                                           Len(call.path) - 1, call.path, 0))

\* A Serializable whose serialize() returns another Serializable that returns
\* an unserializable object: two hops, two markers.
Wit_C2 ==
    /\ SerDone
    /\ call.o = SerializableProxy(SerializableProxy(MyNonSerializableType))
    /\ ret.tag = "NonSerializableObject"
    /\ ret.path = call.path \o <<SerializeMarker, SerializeMarker>>

RECURSIVE ContainsNonStringKey(_)
\* o holds, at some nesting level, a mapping with a key that is not a string.
ContainsNonStringKey(o) ==
    CASE o.k \in {"dict", "serdict", "dc"} ->
            \E i \in 1..Len(o.v) : ~IsStr(o.v[i][1]) \/ ContainsNonStringKey(o.v[i][2])
      [] o.k \in {"list", "tuple", "set"} ->
            \E i \in 1..Len(o.v) : ContainsNonStringKey(o.v[i])
      [] o.k \in {"ser", "proxy"} -> ContainsNonStringKey(o.v)
      [] OTHER -> FALSE

RECURSIVE SerializesToMapping(_)
\* The serialized form of o, when there is one, is a mapping.
SerializesToMapping(o) ==
    CASE o.k \in {"dict", "serdict", "ser", "dc"} -> TRUE
      [] o.k = "proxy" -> SerializesToMapping(o.v)
      [] OTHER -> FALSE

RECURSIVE Height(_)
\* The number of path segments below o that the traversal of o appends.
Height(o) ==
    CASE o.k \in {"dict", "dc"} ->
            IF o.v = <<>> THEN 0
            ELSE 1 + (CHOOSE m \in {Height(o.v[i][2]) : i \in 1..Len(o.v)} :
                        \A i \in 1..Len(o.v) : Height(o.v[i][2]) <= m)
      [] o.k \in {"list", "tuple", "set"} ->
            IF o.v = <<>> THEN 0
            ELSE 1 + (CHOOSE m \in {Height(o.v[i]) : i \in 1..Len(o.v)} :
                        \A i \in 1..Len(o.v) : Height(o.v[i]) <= m)
      [] o.k = "ser" -> 2 + Height(o.v)
      [] o.k = "proxy" -> 1 + Height(o.v)
      [] o.k = "serdict" -> 2 + Height(PyDict(o.v))
      [] OTHER -> 0

RECURSIVE NoOtherFault(_)
\* o holds no non-serializable object, no sequence that mixes mappings with
\* non-mappings and no object whose serialize() raises.
NoOtherFault(o) ==
    CASE o.k \in {"dict", "serdict"} -> \A i \in 1..Len(o.v) : NoOtherFault(o.v[i][2])
      [] o.k \in {"list", "tuple", "set"} ->
            /\ \A i \in 1..Len(o.v) : NoOtherFault(o.v[i])
            /\ \A i, j \in 1..Len(o.v) :
                  SerializesToMapping(o.v[i]) = SerializesToMapping(o.v[j])
      [] o.k \in {"ser", "proxy"} -> NoOtherFault(o.v)
      [] o.k = "dc" -> o.v = <<>>
      [] o.k \in {"obj", "none"} -> FALSE
      [] OTHER -> TRUE

\* C3 as stated: a value that contains a mapping with a non-string key at any
\* nesting level fails with NonStringMappingKey.
Orig_C3_AlwaysNonStringMappingKey ==
    (SerDone /\ call.op = "makeDefaultCfg" /\ ContainsNonStringKey(call.o)) =>
        ret.tag = "NonStringMappingKey"

\* C3, amended: a value that contains a mapping with a non-string key at any
\* nesting level is never serialized; the failure is NonStringMappingKey
\* whenever the value holds no non-serializable object, no mixed sequence and
\* no failing serialize() and stays within the depth limit (otherwise the
\* error met first in traversal order is raised).  A successfully serialized
\* mapping has exactly the keys of the original, all strings, in order, each
\* mapped to the serialization of the original value.
Thm_C3_NonStringKeyNeverSerialized ==
    SerDone =>
        LET o == call.o IN
        /\ ContainsNonStringKey(o) => ret.tag # "ok"
        /\ ( /\ ContainsNonStringKey(o)
             /\ NoOtherFault(o)
             /\ Len(call.path) + Height(o) <= call.depthLimit )
              => /\ ret.tag = "NonStringMappingKey"
                 /\ ~IsStr(ret.val)
                 /\ ret.depth = Len(ret.path) - 1
        /\ (o.k = "dict" /\ ret.tag = "ok") =>
              /\ ret.val.k = "dict"
              /\ Keys(ret.val) = Keys(o)
              /\ \A i \in 1..Len(o.v) :
                    /\ IsStr(o.v[i][1])
                    /\ ret.val.v[i][2] =
                         _serialize(o.v[i][2], Append(call.path, o.v[i][1]),
                                    call.depthLimit).val

\* A non-string key below the top level is reported with the path to its mapping.
Wit_C3 ==
    /\ SerDone
    /\ call.o.k = "list"
    /\ ContainsNonStringKey(call.o)
    /\ ret.tag = "NonStringMappingKey"
    /\ Len(ret.path) = Len(call.path) + 1

RECURSIVE Homogeneous(_)
\* Every sequence inside the serialized tree t holds only mappings or none.
Homogeneous(t) ==
    CASE t.k = "list" ->
            /\ \A i, j \in 1..Len(t.v) : IsMapping(t.v[i]) = IsMapping(t.v[j])
            /\ \A i \in 1..Len(t.v) : Homogeneous(t.v[i])
      [] t.k = "dict" -> \A i \in 1..Len(t.v) : Homogeneous(t.v[i][2])
      [] OTHER -> TRUE

\* The outcomes of serializing the elements of the collection of this call.
ElementOutcomes ==
    [i \in 1..Len(call.o.v) |->
        _serialize(call.o.v[i], Append(call.path, call.o.v[i]), call.depthLimit)]

\* C4: _serialize of an ordered collection fails with MultiTypeList exactly
\* when all its elements serialize, there is more than one and they do not
\* agree on being a mapping; so every sequence inside a serialized tree holds
\* only mappings or no mappings.  [{a:1}, 2] fails, [{a:1}, {b:2}] succeeds.
Thm_C4_HomogeneousSequences ==
    SerDone =>
        LET o == call.o IN
        /\ (o.k \in {"list", "tuple", "set"} /\ ~(Len(call.path) > call.depthLimit)) =>
              LET rs == ElementOutcomes IN
              ( /\ ret.tag = "MultiTypeList"
                /\ ret.path = call.path
                /\ ret.val = o )
              <=> ( /\ \A i \in 1..Len(rs) : rs[i].tag = "ok"
                    /\ Len(rs) > 1
                    /\ \E i, j \in 1..Len(rs) :
                          IsMapping(rs[i].val) # IsMapping(rs[j].val) )
        /\ ret.tag = "ok" => Homogeneous(ret.val)
        /\ ( /\ o = PyList(<<PyDict(<<Item(PyStr("a"), PyInt(1))>>), PyInt(2)>>)
             /\ call.depthLimit = DefaultDepthLimit ) => ret.tag = "MultiTypeList"
        /\ ( /\ o = PyList(<<PyDict(<<Item(PyStr("a"), PyInt(1))>>),
                             PyDict(<<Item(PyStr("b"), PyInt(2))>>)>>)
             /\ call.depthLimit = DefaultDepthLimit ) => ret.tag = "ok"

\* [2, {a:1}] nested in a list: the inner sequence is the one rejected.
Wit_C4 ==
    /\ SerDone
    /\ call.o = PyList(<<PyList(<<PyInt(2), PyDict(<<Item(PyStr("a"), PyInt(1))>>)>>)>>)
    /\ ret.tag = "MultiTypeList"
    /\ Len(ret.path) = Len(call.path) + 1

\* The chain of n nested lists around a scalar that is the input of this call.
IsChain(n) == call.o = Nest(n, PyInt(1))

Wit_C5_Succeeds ==
    /\ SerDone
    /\ call.depthLimit = DefaultDepthLimit
    /\ call.path = <<>>
    /\ IsChain(DefaultDepthLimit)
    /\ ret.tag = "ok"


---------------------------------------------------------------------------
(* _deserializeField and SerializableDataClass.deserialize called directly, *)
(* as the dataclass tests do                                                *)

\* class IntClass(SerializableDataClass): intVar: int
IntClass == TDataClass(<< <<"intVar", TClass("int")>> >>)

\* class OuterClass(SerializableDataClass): inner: IntClass
OuterClass == TDataClass(<< <<"inner", IntClass>> >>)

\* class KeepClass(SerializableDataClass): intVar: int; items: List[Union[int, str]]
KeepClass ==
    TDataClass(<< <<"intVar", TClass("int")>>,
                  <<"items", TGeneric("list", <<TUnion(<<TClass("int"), TClass("str")>>)>>)>> >>)

\* class OuterKeepClass(SerializableDataClass): inner: KeepClass
OuterKeepClass == TDataClass(<< <<"inner", KeepClass>> >>)

PrimativeHints == {TClass(kind) : kind \in primativeTypes}

UnionHints ==
    { TUnion(<<TClass("int"), TClass("str")>>),
      TUnion(<<TClass("str"), TClass("int")>>),
      TUnion(<<TClass("int"), NoneType>>),
      TUnion(<<NoneType, TClass("float"), TClass("int")>>),
      TUnion(<<TGeneric("list", <<TUnion(<<TClass("int"), TClass("str")>>)>>), TClass("int")>>),
      TUnion(<<TGeneric("list", <<TUnion(<<TClass("int"), TClass("str")>>)>>),
               TGeneric("list", <<TClass("float")>>)>>),
      TUnion(<<TGeneric("list", <<TClass("int")>>), TGeneric("list", <<TAny>>)>>),
      TUnion(<<OuterClass, TClass("int")>>),
      TUnion(<<IntClass, TGeneric("dict", <<TClass("str"), TClass("int")>>)>>),
      TUnion(<<TClass("ser"), TClass("str")>>) }

FieldTypes ==
    PrimativeHints \cup UnionHints
        \cup { TAny, TClass("tuple"), TClass("ser"), IntClass, OuterClass, KeepClass,
               TGeneric("list", <<TClass("int")>>),
               TGeneric("set", <<TClass("int")>>),
               TGeneric("tuple", <<TClass("int"), TEllipsis>>),
               TGeneric("tuple", <<TClass("int"), TClass("int")>>),
               TGeneric("dict", <<TClass("str"), TClass("int")>>),
               TGeneric("dict", <<TClass("int"), TClass("int")>>),
               TGeneric("dict", <<TClass("str"), IntClass>>),
               TGeneric("dict", <<TUnion(<<TClass("int"), TClass("str")>>), TClass("int")>>),
               TGeneric("dict", <<TClass("str"),
                                  TGeneric("dict", <<TClass("int"), TClass("int")>>)>>),
               TGeneric("list", <<TGeneric("dict", <<TClass("int"), TClass("int")>>)>>),
               TGeneric("list", <<TUnion(<<TClass("int"), TClass("str")>>)>>),
               TGeneric("list", <<OuterClass>>) }

SerializedValues ==
    { PyInt(3), PyStr("3"), PyStr("abc"), PyFloat(3), PyBool(TRUE), PyNone,
      PyList(<<>>), PyList(<<PyInt(1), PyInt(1)>>), PyList(<<PyFloat(3)>>),
      PyList(<<PyInt(1), PyStr("a")>>),
      PyDict(<<Item(PyStr("a"), PyInt(1))>>),
      PyDict(<<Item(PyStr("intVar"), PyInt(1))>>),
      PyDict(<<Item(PyStr("intVar"), PyStr("3"))>>),
      PyDict(<<Item(PyStr("inner"), PyDict(<<Item(PyStr("intVar"), PyInt(1))>>))>>),
      PyDict(<<Item(PyStr("a"), PyDict(<<Item(PyStr("intVar"), PyInt(1))>>))>>),
      PyDict(<<Item(PyStr("intVar"), PyInt(1)),
               Item(PyStr("items"), PyList(<<PyFloat(3)>>))>>),
      PyDict(<<Item(PyStr("myField"), PyStr("abc"))>>),
      PyDict(<<Item(PyInt(1), PyInt(1))>>),
      PyTuple(<<PyInt(1), PyInt(3)>>),
      PyList(<<PyInt(1), PyDict(<<>>)>>),
      PyList(<<PyDict(<<Item(PyStr("inner"), PyDict(<<Item(PyStr("intVar"), PyStr("3"))>>))>>)>>),
      PyDict(<<Item(PyStr("inner"), PyDict(<<Item(PyInt(1), PyInt(1))>>))>>),
      PyDict(<<Item(PyStr("inner"),
                    PyDict(<<Item(PyStr("intVar"), PyInt(1)),
                             Item(PyStr("items"), PyList(<<PyFloat(3)>>))>>))>>) }

NoDRet == DRet(PyNone, <<>>, PyNone)

InitField ==
    /\ pc = "start"
    /\ call \in [op : {"_deserializeField"}, fieldName : {"f"}, fieldType : FieldTypes,
                 serializedValue : SerializedValues, c_variableTrace : {<<>>},
                 c_badTypeHandling : BadTypeHandlings, deserializeSerializable : {TRUE}]
            \cup [op : {"deserialize"}, fieldName : {""},
                  fieldType : {IntClass, OuterClass, KeepClass, OuterKeepClass},
                  serializedValue : SerializedValues, c_variableTrace : {<<PyStr("x")>>},
                  c_badTypeHandling : BadTypeHandlings, deserializeSerializable : BOOLEAN]
    /\ ret = NoDRet
    /\ cfgModule = <<>>
    /\ config = <<>>
    /\ logs = <<>>
    /\ idx = 0

\* _deserializeField(fieldName, fieldType, serializedValue,
\*                   c_variableTrace=..., c_badTypeHandling=...)
DeserializeField ==
    /\ pc = "start"
    /\ call.op = "_deserializeField"
    /\ ret' = _deserializeField(call.fieldName, call.fieldType, call.serializedValue,
                                call.c_variableTrace, call.c_badTypeHandling, FALSE,
                                call.deserializeSerializable)
    /\ logs' = logs \o ret'.logs
    /\ pc' = "done"
    /\ UNCHANGED <<call, cfgModule, config, idx>>

\* cls.deserialize(data, deserializeValues=..., c_variableTrace=...,
\*                 c_badTypeHandling=...)
Deserialize ==
    /\ pc = "start"
    /\ call.op = "deserialize"
    /\ ret' = ClassDeserialize(call.fieldType, call.serializedValue,
                               call.deserializeSerializable, call.c_variableTrace,
                               call.c_badTypeHandling)
    /\ logs' = logs \o ret'.logs
    /\ pc' = "done"
    /\ UNCHANGED <<call, cfgModule, config, idx>>

NextField == DeserializeField \/ Deserialize

SpecField == InitField /\ [][NextField]_vars

---------------------------------------------------------------------------
(* Properties of loadCfg *)

\* loadCfg is about to process the document item at idx.
AtItem == pc = "loading" /\ idx <= Len(config)

ItemName == config[idx][1]
ItemValue == config[idx][2]

\* The names of the document.
DocNames == {config[i][1] : i \in 1..Len(config)}

IsScalar(value) == value.k \in {"int", "float", "str", "bool"}

\* The values the round trip is stated for: a primitive scalar, a list,
\* set, tuple or string-keyed dict of primitive scalars, or an implementor
\* of the Serializable contract holding primitive scalars.
InRoundTripDomain(value) ==
    \/ IsScalar(value)
    \/ value.k \in {"list", "set", "tuple"} /\ \A i \in 1..Len(value.v) : IsScalar(value.v[i])
    \/ /\ value.k \in {"dict", "dc"}
       /\ \A i \in 1..Len(value.v) : IsStr(value.v[i][1]) /\ IsScalar(value.v[i][2])
    \/ value.k \in {"ser", "proxy"} /\ IsScalar(value.v)

\* a == b in Python: the elements of a set are compared without order.
PyEquals(a, b) ==
    IF a.k = "set" /\ b.k = "set"
    THEN {a.v[i] : i \in 1..Len(a.v)} = {b.v[i] : i \in 1..Len(b.v)}
    ELSE a = b

\* C1 as stated: for every value v of the round-trip domain declared as the
\* module variable x, makeDefaultCfg writes a document and loading that
\* document back under the default policy ends with x equal to v.
Orig_C1_RoundTrip ==
    /\ (call.op = "makeDefaultCfg" /\ pc = "done" /\ InRoundTripDomain(call.o))
            => ret.tag = "ok"
    /\ (call.op = "loadDefaultCfg" /\ InRoundTripDomain(call.defaults[1].value))
            => /\ pc # "raised"
               /\ pc = "loaded" => PyEquals(cfgModule["x"], call.defaults[1].value)

\* The round trip of C1 for the values that are not dataclass instances
\* with at least one field.
RoundTripExceptDataClass ==
    /\ (call.op = "makeDefaultCfg" /\ pc = "done" /\ InRoundTripDomain(call.o)
            /\ ~(call.o.k = "dc" /\ call.o.v # <<>>))
            => ret.tag = "ok"
    /\ (call.op = "loadDefaultCfg" /\ InRoundTripDomain(call.defaults[1].value))
            => /\ pc # "raised"
               /\ pc = "loaded" => PyEquals(cfgModule["x"], call.defaults[1].value)

\* C6 (unknown names): when the document item being processed has a name
\* that is not in the scanned defaults, RAISE ends loadCfg with NameError,
\* LOG appends exactly one warning naming it and moves to the next item,
\* IGNORE moves to the next item silently, and none of the three changes the
\* module; at every moment the module has exactly the declared attributes,
\* a declared variable that the document does not name holds its default,
\* and after a load that did not raise every declared name of the document
\* whose value is an instance of its plain declared type holds that value.
Thm_C6_UnknownNames ==
    /\ [][ (AtItem /\ ~InDefaults(ItemName, call.defaults)) =>
             /\ cfgModule' = cfgModule
             /\ call.badNameHandling = "RAISE" =>
                    pc' = "raised" /\ ret'.tag = "NameError" /\ logs' = logs
             /\ call.badNameHandling = "LOG" =>
                    /\ pc' = "loading" /\ idx' = idx + 1
                    /\ logs' = Append(logs, LogEntry("unknownName", ItemName, TRUE))
             /\ call.badNameHandling = "IGNORE" =>
                    pc' = "loading" /\ idx' = idx + 1 /\ logs' = logs ]_vars
    /\ [](call.op \in {"loadCfg", "loadDefaultCfg"} =>
             /\ DOMAIN cfgModule = {call.defaults[i].name : i \in 1..Len(call.defaults)}
             /\ \A i \in 1..Len(call.defaults) :
                    call.defaults[i].name \notin DocNames =>
                        cfgModule[call.defaults[i].name] = call.defaults[i].value
             /\ pc = "loaded" =>
                    \A j \in 1..Len(config) :
                        (/\ InDefaults(config[j][1], call.defaults)
                         /\ ~IsSerializableClass(DefaultOf(config[j][1], call.defaults).loadedType)
                         /\ IsInstance(config[j][2],
                                       DefaultOf(config[j][1], call.defaults).loadedType))
                            => cfgModule[config[j][1]] = config[j][2])

\* An unknown name z was logged and skipped, and the x that follows it in
\* the document was loaded.
Wit_C6 ==
    /\ pc = "loaded"
    /\ call.op = "loadCfg"
    /\ call.badNameHandling = "LOG"
    /\ config = <<Item("z", PyInt(1)), Item("x", PyInt(3))>>
    /\ call.defaults[1] = Variable("x", PyInt(2), TClass("int"))
    /\ cfgModule["x"] = PyInt(3)
    /\ \E i \in 1..Len(logs) : logs[i] = LogEntry("unknownName", "z", TRUE)

\* The document item at idx names a declared variable whose value is not an
\* instance of the declared type, under behaviour CAST.
AtCastOf(T) ==
    /\ AtItem
    /\ InDefaults(ItemName, call.defaults)
    /\ DefaultOf(ItemName, call.defaults).loadedType = T
    /\ ~IsInstance(ItemValue, T)
    /\ call.badTypeHandling.behaviour = "CAST"

\* What C7 states of the item at idx for the declared type T.
CastPolicyHolds(T) ==
    /\ Construct(T, ItemValue).ok =>
            /\ pc' = "loading"
            /\ cfgModule' = SetAttr(cfgModule, ItemName, Construct(T, ItemValue).val)
    /\ (/\ ~Construct(T, ItemValue).ok
        /\ ~call.badTypeHandling.keepFailedCast
        /\ call.badTypeHandling.rejectType = "RAISE")
            => pc' = "raised" /\ ret'.tag = "TypeError" /\ cfgModule' = cfgModule

\* The declared types of the module.
DeclaredTypes == {v.loadedType : v \in XVariables \cup {YVariable}}

\* C7 as stated, for every declared type.
Orig_C7_CastPolicy ==
    [][\A T \in DeclaredTypes : AtCastOf(T) => CastPolicyHolds(T)]_vars

\* C7 (cast policy), for a declared type T that does not implement the
\* Serializable contract: a document value that is not an instance of T is,
\* under CAST, stored as T(value) when the construction succeeds; when it
\* raises, keepFailedCast is false and rejectType is RAISE, loadCfg raises
\* TypeError and the module is not written.
Thm_C7_CastPolicy ==
    [][\A T \in DeclaredTypes :
          (AtCastOf(T) /\ ~IsSerializableClass(T)) => CastPolicyHolds(T)]_vars

\* x is declared int, the document says "3", and 3 was stored.
Wit_C7 ==
    /\ call.op = "loadCfg"
    /\ call.badTypeHandling.behaviour = "CAST"
    /\ call.defaults[1] = Variable("x", PyInt(2), TClass("int"))
    /\ config[1] = Item("x", PyStr("3"))
    /\ idx > 1
    /\ cfgModule["x"] = PyInt(3)


---------------------------------------------------------------------------
(* Properties of _deserializeField *)

FieldDone == pc = "done" /\ call.op = "_deserializeField"

\* The silent probe of the i-th member of the Union being deserialized,
\* on the value as the caller passed it.
ProbeOf(i) ==
    _deserializeField(call.fieldName, call.fieldType.params[i], call.serializedValue,
                      call.c_variableTrace, call.c_badTypeHandling, TRUE, TRUE)

\* The logged deserialization against the i-th member.
RerunOf(i) ==
    _deserializeField(call.fieldName, call.fieldType.params[i], call.serializedValue,
                      call.c_variableTrace, call.c_badTypeHandling, FALSE, TRUE)

\* The i-th member is not None and its silent probe does not raise.
Accepts(i) == call.fieldType.params[i] # NoneType /\ ProbeOf(i).tag = "ok"

\* The value is None and None is a member of the Union.
NullAccepted ==
    /\ call.serializedValue = PyNone
    /\ \E i \in 1..Len(call.fieldType.params) : call.fieldType.params[i] = NoneType

\* C8 as stated: for a concrete primitive field type T, a value that is an
\* instance of T is returned; otherwise CAST returns T(value) when the
\* construction succeeds and KEEP returns the value unchanged; TypeError is
\* raised only under REJECT with rejectType RAISE, or after a failed cast
\* with keepFailedCast false and rejectType RAISE.
Orig_C8_PrimitivePolicy ==
    (FieldDone /\ call.fieldType \in PrimativeHints) =>
        LET T == call.fieldType
            value == call.serializedValue
            policy == call.c_badTypeHandling
        IN  /\ IsInstance(value, T) => ret.tag = "ok" /\ ret.val = value
            /\ (~IsInstance(value, T) /\ policy.behaviour = "CAST" /\ Construct(T, value).ok)
                    => ret.tag = "ok" /\ ret.val = Construct(T, value).val
            /\ (~IsInstance(value, T) /\ policy.behaviour = "KEEP")
                    => ret.tag = "ok" /\ ret.val = value
            /\ ret.tag = "TypeError" =>
                    \/ policy.behaviour = "REJECT" /\ policy.rejectType = "RAISE"
                    \/ /\ policy.behaviour = "CAST" /\ ~Construct(T, value).ok
                       /\ ~policy.keepFailedCast /\ policy.rejectType = "RAISE"

\* C9 as stated: against a Union, None is returned for None when None is a
\* member; otherwise the outcome is the outcome of deserializing the value
\* against the first member, in declaration order, whose silent probe does
\* not raise, and the only log lines are those of that deserialization.
Orig_C9_UnionResolution ==
    (FieldDone /\ call.fieldType.cat = "union") =>
        IF NullAccepted THEN ret.tag = "ok" /\ ret.val = PyNone /\ ret.logs = <<>>
        ELSE \A i \in 1..Len(call.fieldType.params) :
                (Accepts(i) /\ \A j \in 1..(i - 1) : ~Accepts(j)) =>
                    /\ ret.tag = RerunOf(i).tag
                    /\ ret.val = RerunOf(i).val
                    /\ ret.logs = RerunOf(i).logs

\* C10 as stated: when no member of the Union accepts the value, KEEP
\* returns the value unchanged and logs exactly when logTypeKeeping is set;
\* otherwise rejectType RAISE raises TypeError, LOG logs a warning and
\* returns the value, and IGNORE returns the value silently.
Orig_C10_UnionNoMember ==
    (/\ FieldDone /\ call.fieldType.cat = "union" /\ ~NullAccepted
     /\ \A i \in 1..Len(call.fieldType.params) : ~Accepts(i)) =>
        LET value == call.serializedValue
            policy == call.c_badTypeHandling
        IN  /\ policy.behaviour = "KEEP" =>
                    /\ ret.tag = "ok" /\ ret.val = value
                    /\ (ret.logs # <<>>) <=> policy.logTypeKeeping
            /\ (policy.behaviour # "KEEP" /\ policy.rejectType = "RAISE")
                    => ret.tag = "TypeError"
            /\ (policy.behaviour # "KEEP" /\ policy.rejectType = "LOG")
                    => ret.tag = "ok" /\ ret.val = value /\ Len(ret.logs) = 1
            /\ (policy.behaviour # "KEEP" /\ policy.rejectType = "IGNORE")
                    => ret.tag = "ok" /\ ret.val = value /\ ret.logs = <<>>


---------------------------------------------------------------------------
(* Properties of loadCfg: rejection, delegation and type overrides *)

\* The document item at idx names a declared variable of the plain
\* (non-Serializable) declared type T whose value is not an instance of T.
AtMismatchOf(T) ==
    /\ AtItem
    /\ InDefaults(ItemName, call.defaults)
    /\ DefaultOf(ItemName, call.defaults).loadedType = T
    /\ IsType(T) /\ ~IsSerializableClass(T)
    /\ ~IsInstance(ItemValue, T)

\* C11 as stated: a mismatched top-level value under behaviour REJECT makes
\* loadCfg record exactly one warning naming the variable and go on when
\* rejectType is LOG, go on without a warning when it is IGNORE, and raise
\* TypeError when it is RAISE.
Orig_C11_RejectLogging ==
    [][\A T \in DeclaredTypes :
          (AtMismatchOf(T) /\ call.badTypeHandling.behaviour = "REJECT") =>
              /\ call.badTypeHandling.rejectType = "LOG" =>
                    /\ pc' = "loading"
                    /\ Len(logs') = Len(logs) + 1
                    /\ logs'[Len(logs')].name = ItemName
                    /\ logs'[Len(logs')].warning
              /\ call.badTypeHandling.rejectType = "IGNORE" =>
                    pc' = "loading" /\ logs' = logs
              /\ call.badTypeHandling.rejectType = "RAISE" =>
                    pc' = "raised" /\ ret'.tag = "TypeError"]_vars


---------------------------------------------------------------------------
(* Properties of the scanner *)

ScanEnded == pc \in {"done", "raised"} /\ call.op = "_partialModuleVariables"

\* C12 as stated: the scanner never raises on any token stream; a line that
\* looks like a declaration whose name cannot be looked up in the module is
\* omitted, with or without an inline comment, inside or outside a block.
Orig_C12_ScannerNeverRaises ==
    ScanEnded =>
        /\ ret.tag = "ok"
        /\ \A i \in 1..Len(ret.val) : cfgModule[ret.val[i].name] # Absent


ScanReturned == ScanEnded /\ ret.tag = "ok"

\* The text of the comment of line i, as the scanner records it.
RecordedText(i, inline) == lstrip(CommentText(i, inline), {"#", " "})

\* Line i holds an unindented physical line that begins with `name =`: an
\* unindented assignment, or a multi-line call, whose first line assigns
\* line.name and whose second line begins with key2 =.
TopDeclares(source, i, name) ==
    \/ source[i].kind \in {"assign", "override"} /\ source[i].indent = 0 /\ source[i].name = name
    \/ source[i].kind = "call" /\ name \in {source[i].name, "key2"}

\* The name whose declaration the inline comment of line i stands behind.
InlineName(source, i) == IF source[i].kind = "call" THEN "key2" ELSE source[i].name

\* The first line below line j that is not a comment-only line, or 0.
NextNonComment(source, j) ==
    LET below == {d \in (j + 1)..Len(source) : source[d].kind # "comment"}
    IN  IF below = {} THEN 0 ELSE CHOOSE d \in below : \A e \in below : d <= e

\* C13 as stated: only unindented assignment lines register variables.
\* No indented line (whichever line of its block) and no import line
\* creates a variable record, adds an inline comment or receives preceding
\* comments, even when the module has an attribute of that name.
Orig_C13_OnlyTopLevelLines ==
    ScanReturned =>
        \A v \in 1..Len(ret.val) :
            LET var == ret.val[v]
            IN  /\ \E i \in 1..Len(call.source) : TopDeclares(call.source, i, var.name)
                /\ \A c \in 1..Len(var.inlineComments) :
                      \E i \in 1..Len(call.source) :
                          /\ call.source[i].inline
                          /\ var.inlineComments[c] = RecordedText(i, TRUE)
                          /\ TopDeclares(call.source, i, InlineName(call.source, i))
                          /\ InlineName(call.source, i) = var.name
                /\ \A c \in 1..Len(var.preComments) :
                      \E j \in 1..Len(call.source) :
                          /\ call.source[j].kind = "comment"
                          /\ var.preComments[c] = RecordedText(j, FALSE)
                          /\ NextNonComment(call.source, j) # 0
                          /\ TopDeclares(call.source, NextNonComment(call.source, j), var.name)


RECURSIVE RunAbove(_, _)
\* The recorded texts of the maximal contiguous run of comment-only lines
\* directly above line d, in source order.
RunAbove(source, d) ==
    IF d > 1 /\ source[d - 1].kind = "comment"
    THEN Append(RunAbove(source, d - 1), RecordedText(d - 1, FALSE))
    ELSE <<>>

RECURSIVE PrecedingOf(_, _, _)
\* The runs above the unindented declaration lines of name among the first
\* d lines, one after the other.
PrecedingOf(source, d, name) ==
    IF d = 0 THEN <<>>
    ELSE PrecedingOf(source, d - 1, name)
            \o (IF TopDeclares(source, d, name) /\ ~(source[d].kind = "call" /\ name = "key2")
                THEN RunAbove(source, d) ELSE <<>>)

\* C14 as stated: the preceding comments of a variable are exactly the runs
\* of comment-only lines directly above its declaration lines, in source
\* order; comments separated from a declaration by a blank line, by a
\* discarded (indented or import) line or by any other line are attached to
\* no variable.
Orig_C14_PrecedingComments ==
    ScanReturned =>
        \A v \in 1..Len(ret.val) :
            ret.val[v].preComments = PrecedingOf(call.source, Len(call.source), ret.val[v].name)

\* The source has an indented line that begins with `name =` and is not the
\* first statement of its block.
HasLaterBlockAssign(source) ==
    \E i \in 1..Len(source) :
        /\ source[i].kind = "assign" /\ source[i].indent = 1
        /\ CtxBefore(source, i) \in {"if", "def"}

\* The statement of C14 on the sources in which only the first statement
\* of a block begins with `name =`.
PrecedingCommentsOutsideBlocks ==
    (ScanReturned /\ ~HasLaterBlockAssign(call.source)) =>
        \A v \in 1..Len(ret.val) :
            ret.val[v].preComments = PrecedingOf(call.source, Len(call.source), ret.val[v].name)


RECURSIVE InlineOf(_, _, _)
\* The recorded texts of the inline comments of the unindented declaration
\* lines of name among the first d lines, in source order.
InlineOf(source, d, name) ==
    IF d = 0 THEN <<>>
    ELSE InlineOf(source, d - 1, name)
            \o (IF source[d].inline /\ InlineName(source, d) = name
                   /\ TopDeclares(source, d, name)
                THEN <<RecordedText(d, TRUE)>> ELSE <<>>)

\* C15 as stated: the inline comments of a variable are exactly the
\* comments that end its declaration lines, in the order encountered; they
\* go to no other variable and never to the preceding comments, and a
\* variable without such a comment has an empty list.
Orig_C15_InlineComments ==
    ScanReturned =>
        \A v \in 1..Len(ret.val) :
            /\ ret.val[v].inlineComments = InlineOf(call.source, Len(call.source), ret.val[v].name)
            /\ \A c \in 1..Len(ret.val[v].preComments) :
                  \A i \in 1..Len(call.source) :
                      ret.val[v].preComments[c] # RecordedText(i, TRUE)

\* The statement of C15 on the sources in which only the first statement
\* of a block begins with `name =`.
InlineCommentsOutsideBlocks ==
    (ScanReturned /\ ~HasLaterBlockAssign(call.source)) =>
        \A v \in 1..Len(ret.val) :
            ret.val[v].inlineComments = InlineOf(call.source, Len(call.source), ret.val[v].name)


\* The names of the variables the scan returned.
ScannedNames == {ret.val[v].name : v \in 1..Len(ret.val)}

\* The source holds a multi-line call whose second line begins with
\* key2 = at the given indentation, and key2 is bound nowhere in the module.
KeywordOnly(indent) ==
    /\ \E i \in 1..Len(call.source) :
          call.source[i].kind = "call" /\ call.source[i].indent = indent
    /\ cfgModule["key2"] = Absent

OnlyAssignsX ==
    Len(call.source) = 1 /\ call.source[1].kind = "assign"
        /\ call.source[1].name = "x" /\ call.source[1].indent = 0

IsOverride(value) == value.k = "override"

\* C17: for a variable whose default was produced by TypeOverride(T, d) the
\* scanned type is T and loadCfg checks and casts the document value
\* against T, not type(d): an instance of T is stored as it is, another
\* value is cast to T under CAST and raises TypeError under REJECT/RAISE.
\* For every other variable the scanned type is the runtime type of the
\* module's value and the scanned value is the module's runtime value.
Thm_C17_TypeOverride ==
    [][(AtItem /\ InDefaults(ItemName, call.defaults)) =>
          LET default == DefaultOf(ItemName, call.defaults)
          IN  IF IsOverride(default.value)
              THEN LET T == default.value.v[1]
                   IN  /\ default.loadedType = T
                       /\ IsInstance(ItemValue, T) =>
                             /\ pc' = "loading"
                             /\ cfgModule' = SetAttr(cfgModule, ItemName, ItemValue)
                       /\ AtCastOf(T) => CastPolicyHolds(T)
                       /\ (/\ ~IsInstance(ItemValue, T)
                           /\ call.badTypeHandling.behaviour = "REJECT"
                           /\ call.badTypeHandling.rejectType = "RAISE")
                             => pc' = "raised" /\ ret'.tag = "TypeError"
              ELSE /\ default.loadedType = TypeOf(default.value)
                   /\ default.value = cfgModule[ItemName]]_vars

\* x = TypeOverride(float, 1), the document says x = 3, and 3.0 was stored.
Wit_C17 ==
    /\ call.op = "loadCfg"
    /\ call.badTypeHandling.behaviour = "CAST"
    /\ call.defaults[1] = Variable("x", TypeOverride(TClass("float"), PyInt(1)), TClass("float"))
    /\ config[1] = Item("x", PyInt(3))
    /\ idx > 1
    /\ cfgModule["x"] = PyFloat(6)


\* The scanner's side of C17 on every scanned source: each record holds
\* the module's runtime value, and its type is the override's type for a
\* TypeOverride proxy and the runtime type of the value otherwise.
ScannedTypesAndValues ==
    ScanReturned =>
        \A v \in 1..Len(ret.val) :
            /\ ret.val[v].value = cfgModule[ret.val[v].name]
            /\ ret.val[v].loadedType =
                  IF IsOverride(ret.val[v].value) THEN ret.val[v].value.v[1]
                  ELSE TypeOf(ret.val[v].value)


\* The Serializable declared types of the module.
SerializableDeclaredTypes == {T \in DeclaredTypes : IsType(T) /\ IsSerializableClass(T)}

\* The document item at idx names a declared variable of the Serializable
\* type T.
AtSerializableOf(T) ==
    /\ AtItem
    /\ InDefaults(ItemName, call.defaults)
    /\ DefaultOf(ItemName, call.defaults).loadedType = T

\* C18: for a declared type that implements the Serializable contract
\* loadCfg hands the document value to the type's deserialize.  An
\* exception raised in it reaches the caller of loadCfg unchanged under
\* every bad-type policy and the module is not written; an instance it
\* returns is what is stored.
Thm_C18_SerializableDelegation ==
    [][\A T \in SerializableDeclaredTypes :
          AtSerializableOf(T) =>
              LET des == ClassDeserialize(T, ItemValue, TRUE, <<PyStr(ItemName)>>,
                                          call.badTypeHandling)
              IN  /\ des.tag # "ok" =>
                        pc' = "raised" /\ ret'.tag = des.tag /\ cfgModule' = cfgModule
                  /\ (des.tag = "ok" /\ IsInstance(des.val, T)) =>
                        /\ pc' = "loading"
                        /\ cfgModule' = SetAttr(cfgModule, ItemName, des.val)]_vars

\* x is a MySerializableClass, the document gives it a table without
\* myField under a policy that does not raise on bad types, and loadCfg
\* ended with the KeyError of deserialize, x unwritten.
Wit_C18 ==
    /\ call.op = "loadCfg"
    /\ call.badTypeHandling.rejectType = "IGNORE"
    /\ call.defaults[1] = Variable("x", MySerializableClass(PyStr("hello")), TClass("ser"))
    /\ config[1] = Item("x", PyDict(<<Item(PyStr("intVar"), PyInt(3))>>))
    /\ pc = "raised"
    /\ ret.tag = "KeyError"
    /\ cfgModule["x"] = MySerializableClass(PyStr("hello"))


---------------------------------------------------------------------------
(* Properties of the models: SerializableDataClass and SerializableTimedelta *)

\* The _serialize result of the i-th field of the dataclass instance o.
FieldOutcome(o, i) == _serialize(o.v[i][2], <<o.v[i][1]>>, DefaultDepthLimit)

\* C19 as stated: serializing a SerializableDataClass instance gives the
\* mapping from each field name to the _serialize result of the field's
\* value, and fails with the serializer's structured error when a field
\* value is unserializable.
Orig_C19_DataClassSerialize ==
    (SerDone /\ call.op = "_serialize" /\ call.o.k = "dc"
        /\ call.path = <<>> /\ call.depthLimit = DefaultDepthLimit) =>
        IF \A i \in 1..Len(call.o.v) : FieldOutcome(call.o, i).tag = "ok"
        THEN /\ ret.tag = "ok"
             /\ ret.val = PyDict([i \in 1..Len(call.o.v) |->
                                    Item(call.o.v[i][1], FieldOutcome(call.o, i).val)])
        ELSE ret.tag \in {"NonSerializableObject", "NonStringMappingKey", "MultiTypeList"}


TimedeltaSerialized == pc = "serialized" /\ call.op = "serialize"

\* The seven units the serialized timedelta must hold by C20.
UnitsHold(data, weeks, days) ==
    /\ [i \in 1..Len(data.v) |-> data.v[i][1].v] = TimedeltaUnits
    /\ UnitOf(data, "weeks") = weeks
    /\ UnitOf(data, "days") = days
    /\ UnitOf(data, "hours") = call.self.v[2] \div 3600
    /\ UnitOf(data, "minutes") = (call.self.v[2] % 3600) \div 60
    /\ UnitOf(data, "seconds") = call.self.v[2] % 60
    /\ UnitOf(data, "minutes") < 60 /\ UnitOf(data, "seconds") < 60
    /\ UnitOf(data, "milliseconds") = call.self.v[3] \div 1000
    /\ UnitOf(data, "microseconds") = call.self.v[3] % 1000
    /\ UnitOf(data, "microseconds") < 1000

\* deserialize(td.serialize()) == td
TimedeltaRoundTrip ==
    (pc \in {"done", "raised"} /\ call.op = "serialize") =>
        ret.tag = "ok" /\ ret.val = call.self

\* C20 as stated: serialize returns the seven units with weeks = days div 7
\* and the remainder in days, hours, minutes < 60 and seconds < 60 from the
\* seconds, milliseconds and microseconds < 1000 from the microseconds, for
\* every timedelta, negative day counts included; and deserializing the
\* result gives the timedelta back.
Orig_C20_TimedeltaUnits ==
    /\ TimedeltaSerialized =>
          UnitsHold(ret.val, call.self.v[1] \div 7, call.self.v[1] % 7)
    /\ TimedeltaRoundTrip

\* C20, amended: serialize returns the seven units with weeks = days div 7
\* and the remainder in days when the day count is at least 7, and weeks = 0
\* with the whole (possibly negative) day count in days otherwise; hours,
\* minutes < 60 and seconds < 60 from the seconds, milliseconds and
\* microseconds < 1000 from the microseconds; and deserializing the result
\* gives the timedelta back, negative day counts included.
Thm_C20_TimedeltaUnits ==
    /\ TimedeltaSerialized =>
          UnitsHold(ret.val,
                    IF call.self.v[1] < 7 THEN 0 ELSE call.self.v[1] \div 7,
                    IF call.self.v[1] < 7 THEN call.self.v[1] ELSE call.self.v[1] % 7)
    /\ TimedeltaRoundTrip


\* The timedelta of -8 days, 1:01:01 and 1001 microseconds was serialized
\* with no weeks and -8 days, and deserialized to itself.
Wit_C20 ==
    /\ pc = "done"
    /\ call.op = "serialize"
    /\ call.self = Timedelta(0 - 8, 3661, 1001)
    /\ UnitOf(TimedeltaSerialize(call.self), "weeks") = 0
    /\ UnitOf(TimedeltaSerialize(call.self), "days") = 0 - 8
    /\ ret.val = call.self


---------------------------------------------------------------------------
(* Properties of the deep serializability checks *)

RECURSIVE EveryLevelSerializable(_)
\* Every key of every mapping inside o is a string and every leaf of o is
\* primitive or Serializable.
EveryLevelSerializable(o) ==
    CASE IsSerializable(o) -> TRUE
      [] IsMapping(o) ->
            \A i \in 1..Len(o.v) : IsStr(o.v[i][1]) /\ EveryLevelSerializable(o.v[i][2])
      [] o.k \in {"list", "tuple", "set"} ->
            \A i \in 1..Len(o.v) : EveryLevelSerializable(o.v[i])
      [] OTHER -> objectIsShallowSerializable(o)

\* C21 as stated: objectIsDeepSerializable(o) is True, and
\* raiseForDeepNonSerializable(o) returns None, exactly when every key at
\* every level of o is a string and every leaf is primitive or Serializable.
Orig_C21_DeepChecksRecurse ==
    /\ (pc = "done" /\ call.op = "objectIsDeepSerializable") =>
            ret.val = PyBool(EveryLevelSerializable(call.o))
    /\ (pc \in {"done", "raised"} /\ call.op = "raiseForDeepNonSerializable") =>
            (ret.tag = "ok" <=> EveryLevelSerializable(call.o))

RECURSIVE ContainsMapping(_)
\* o is, or holds outside its Serializable members, a mapping.
ContainsMapping(o) ==
    CASE IsMapping(o) -> TRUE
      [] o.k \in {"list", "tuple", "set"} -> \E i \in 1..Len(o.v) : ContainsMapping(o.v[i])
      [] OTHER -> FALSE

\* The checks on the objects that hold no mapping: every member is visited.
DeepChecksOutsideMappings ==
    (pc \in {"done", "raised"} /\ ~ContainsMapping(call.o)) =>
        IF call.op = "objectIsDeepSerializable"
        THEN ret.val = PyBool(EveryLevelSerializable(call.o))
        ELSE ret.tag = "ok" <=> EveryLevelSerializable(call.o)


---------------------------------------------------------------------------
(* Properties of the serializer on objects that contain themselves *)

\* The addresses held by the object at address a.
MembersOf(heap, a) ==
    CASE heap[a].k = "list" -> {heap[a].v[i] : i \in 1..Len(heap[a].v)}
      [] heap[a].k \in {"dict", "dc"} -> {heap[a].v[i][2] : i \in 1..Len(heap[a].v)}
      [] heap[a].k = "proxy" -> {heap[a].v}
      [] OTHER -> {}

RECURSIVE ReachedWithin(_, _, _)
\* The addresses reached from the set S in at most n steps.
ReachedWithin(heap, S, n) ==
    IF n = 0 THEN S
    ELSE ReachedWithin(heap, S \cup UNION {MembersOf(heap, a) : a \in S}, n - 1)

\* The objects the serialization of the object at address a can visit.
Reachable(heap, a) == ReachedWithin(heap, {a}, MaxObjects)

\* The object at address a contains, at some level, an object that
\* contains itself.
Cyclic(heap, a) ==
    \E b \in Reachable(heap, a) :
        b \in ReachedWithin(heap, MembersOf(heap, b), MaxObjects)

\* No object reachable from a is non-serializable or has a key that is not
\* a string.
Faultless(heap, a) ==
    \A b \in Reachable(heap, a) :
        /\ heap[b].k # "obj"
        /\ heap[b].k = "dict" => \A i \in 1..Len(heap[b].v) : IsStr(heap[b].v[i][1])

CyclicEnded == pc \in {"done", "raised"} /\ call.op = "serializeObject"

\* C22 as stated: _serialize ends with a primitive tree or a raised error,
\* and an input that contains itself (and nothing else at fault) ends in
\* RecursionError, the path having grown beyond depthLimit, also when the
\* cycle passes through a SerializableDataClass.
Orig_C22_SerializeTerminates ==
    CyclicEnded =>
        /\ ret.tag = "ok" => ~Cyclic(call.heap, call.o)
        /\ (Cyclic(call.heap, call.o) /\ Faultless(call.heap, call.o)) =>
                ret.tag = "RecursionError" /\ ret.reached > call.depthLimit

\* The statement of C22 for the inputs that hold no SerializableDataClass
\* with a field.
CyclesOutsideDataClasses ==
    (CyclicEnded /\ \A b \in Reachable(call.heap, call.o) :
                        ~(call.heap[b].k = "dc" /\ call.heap[b].v # <<>>)) =>
        /\ ret.tag = "ok" => ~Cyclic(call.heap, call.o)
        /\ (Cyclic(call.heap, call.o) /\ Faultless(call.heap, call.o)) =>
                ret.tag = "RecursionError" /\ ret.reached > call.depthLimit
        /\ ret.tag = "RecursionError" <=> ret.reached > call.depthLimit


---------------------------------------------------------------------------
(* Properties of the key trace of the serializer's exceptions *)

KeyTracedExceptions == {"NonSerializableObject", "NonStringMappingKey", "MultiTypeList"}

Lost == [k |-> "lost", v |-> 0]

RECURSIVE SiteAt(_, _)
\* The object that the path segments lead to from o: a "[serialize]" marker
\* leads to what serialize() returns, a key to its value in a mapping and
\* an element to itself in a collection.
SiteAt(o, segments) ==
    IF segments = <<>> THEN o
    ELSE LET segment == Head(segments) IN
         CASE IsSerializable(o) ->
                IF segment = SerializeMarker /\ CallSerialize(o).tag = "ok"
                THEN SiteAt(CallSerialize(o).val, Tail(segments)) ELSE Lost
           [] IsMapping(o) ->
                IF \E i \in 1..Len(o.v) : o.v[i][1] = segment
                THEN SiteAt(o.v[CHOOSE i \in 1..Len(o.v) : o.v[i][1] = segment][2],
                            Tail(segments))
                ELSE Lost
           [] o.k \in {"list", "tuple", "set"} ->
                IF \E i \in 1..Len(o.v) : o.v[i] = segment
                THEN SiteAt(segment, Tail(segments)) ELSE Lost
           [] OTHER -> Lost

\* The exception of this call carries the trace from the root of the call
\* to the place of the error.
CarriesFullTrace ==
    /\ Len(ret.path) >= Len(call.path)
    /\ SubSeq(ret.path, 1, Len(call.path)) = call.path
    /\ call.op = "makeDefaultCfg" => ret.path[1] = PyStr("x")
    /\ LET site == SiteAt(call.o, SubSeq(ret.path, Len(call.path) + 1, Len(ret.path)))
       IN  CASE ret.tag = "NonStringMappingKey" ->
                    /\ IsMapping(site) /\ ~IsStr(ret.val)
                    /\ \E i \in 1..Len(site.v) : site.v[i][1] = ret.val
             [] OTHER -> site = ret.val

\* C23 as stated: every NonSerializableObject, NonStringMappingKey and
\* MultiTypeList raised by _serialize carries the full key trace from the
\* root to the error site, and the depth it carries equals the length of
\* that trace.
Orig_C23_KeyTraceDepth ==
    (SerDone /\ ret.tag \in KeyTracedExceptions) =>
        CarriesFullTrace /\ ret.depth = Len(ret.path)

\* C23, amended: every NonSerializableObject, NonStringMappingKey and
\* MultiTypeList raised by _serialize carries the full key trace from the
\* root (the variable name) to the error site, and the depth it carries is
\* one less than the length of that trace: the number of levels below the
\* variable.
Thm_C23_KeyTraceDepth ==
    (SerDone /\ ret.tag \in KeyTracedExceptions) =>
        CarriesFullTrace /\ ret.depth = Len(ret.path) - 1

\* The non-serializable element of the variable x = [<object>, {1: "x"}]:
\* the trace is x, <object> and the depth is 1.
Wit_C23 ==
    /\ SerDone
    /\ call.op = "makeDefaultCfg"
    /\ call.o = PyList(<<MyNonSerializableType, PyDict(<<Item(PyInt(1), PyStr("x"))>>)>>)
    /\ ret.tag = "NonSerializableObject"
    /\ ret.path = <<PyStr("x"), MyNonSerializableType>>
    /\ ret.depth = 1


---------------------------------------------------------------------------
(* Properties of loadCfg: keeping, cast logging and rejection *)

\* The document item at idx names a declared variable of declared type T
\* whose value is not an instance of T.
AtMismatchOfAny(T) ==
    /\ AtItem
    /\ InDefaults(ItemName, call.defaults)
    /\ DefaultOf(ItemName, call.defaults).loadedType = T
    /\ ~IsInstance(ItemValue, T)

\* The policy keeps the mismatched value of the item at idx: behaviour
\* KEEP, or CAST with a construction that raises and keepFailedCast.
Kept(T) ==
    \/ call.badTypeHandling.behaviour = "KEEP"
    \/ /\ call.badTypeHandling.behaviour = "CAST"
       /\ ~Construct(T, ItemValue).ok
       /\ call.badTypeHandling.keepFailedCast

\* What C24 states of the step for a kept item.
KeptAsItIs ==
    /\ pc' = "loading" /\ idx' = idx + 1
    /\ DOMAIN cfgModule' = DOMAIN cfgModule
    /\ \A n \in DOMAIN cfgModule :
          cfgModule'[n] = IF n = ItemName THEN ItemValue ELSE cfgModule[n]
    /\ IF call.badTypeHandling.logTypeKeeping
       THEN /\ Len(logs') = Len(logs) + 1
            /\ SubSeq(logs', 1, Len(logs)) = logs
            /\ logs'[Len(logs')].name = ItemName
            /\ logs'[Len(logs')].warning
       ELSE logs' = logs

\* C24 as stated: whenever a mismatched top-level value is kept, loadCfg does
\* not raise, writes the document's value unchanged into the module and
\* records a warning exactly when logTypeKeeping is true; for every declared
\* type.
Orig_C24_Keeping ==
    [][\A T \in DeclaredTypes :
          (AtMismatchOfAny(T) /\ Kept(T)) =>
              /\ pc' # "raised"
              /\ ~IsSerializableClass(T) => KeptAsItIs]_vars

\* C24, amended: for a declared type that does not implement the
\* Serializable contract, whenever a mismatched top-level value is kept
\* (behaviour KEEP, or CAST with a cast that raises and keepFailedCast),
\* loadCfg does not raise, writes the document's value unchanged into the
\* module under that name and records one warning exactly when
\* logTypeKeeping is true.
Thm_C24_Keeping ==
    [][\A T \in DeclaredTypes : (AtMismatchOf(T) /\ Kept(T)) => KeptAsItIs]_vars

\* x is declared int, the document says "abc", the cast failed and the
\* string was kept with a warning.
Wit_C24 ==
    /\ call.op = "loadCfg"
    /\ call.badTypeHandling.behaviour = "CAST"
    /\ call.badTypeHandling.keepFailedCast
    /\ call.badTypeHandling.logTypeKeeping
    /\ call.defaults[1] = Variable("x", PyInt(2), TClass("int"))
    /\ config[1] = Item("x", PyStr("abc"))
    /\ idx > 1
    /\ cfgModule["x"] = PyStr("abc")
    /\ logs = <<LogEntry("keepFailedCast", "x", TRUE)>>


\* C25 as stated: after a successful cast of a mismatched top-level value,
\* one log entry is emitted exactly when logSuccessfulCast is true and the
\* runtime type of the cast result differs from the runtime type of the
\* document value; casting "3" to int with logSuccessfulCast true emits one.
Orig_C25_SuccessfulCastLogging ==
    [][\A T \in DeclaredTypes :
          (AtMismatchOf(T) /\ call.badTypeHandling.behaviour = "CAST"
                /\ Construct(T, ItemValue).ok) =>
              IF call.badTypeHandling.logSuccessfulCast
                    /\ TypeOf(Construct(T, ItemValue).val) # TypeOf(ItemValue)
              THEN /\ Len(logs') = Len(logs) + 1
                   /\ logs'[Len(logs')].name = ItemName
              ELSE logs' = logs]_vars

\* The part of C25 that holds: without logSuccessfulCast a successful cast
\* emits nothing, and the cast value is stored either way.
SuccessfulCastSilentWhenOff ==
    [][\A T \in DeclaredTypes :
          (AtMismatchOf(T) /\ call.badTypeHandling.behaviour = "CAST"
                /\ Construct(T, ItemValue).ok) =>
              /\ cfgModule'[ItemName] = Construct(T, ItemValue).val
              /\ ~call.badTypeHandling.logSuccessfulCast => logs' = logs]_vars


\* The policy rejects the mismatched value of the item at idx without
\* raising: REJECT, or CAST with a construction that raises and no
\* keepFailedCast, under rejectType LOG or IGNORE.
RejectedQuietly(T) ==
    /\ call.badTypeHandling.rejectType \in {"LOG", "IGNORE"}
    /\ \/ call.badTypeHandling.behaviour = "REJECT"
       \/ /\ call.badTypeHandling.behaviour = "CAST"
          /\ ~Construct(T, ItemValue).ok
          /\ ~call.badTypeHandling.keepFailedCast

\* C26 as stated: when loadCfg rejects a mismatched top-level value without
\* raising, the module variable keeps the value it had before the load.
Orig_C26_RejectedNotStored ==
    [][\A T \in DeclaredTypes :
          (AtMismatchOf(T) /\ RejectedQuietly(T)) =>
              pc' = "loading" /\ cfgModule' = cfgModule]_vars

\* A rejection that raises leaves the module as it was.
RaisedRejectionNotStored ==
    [][\A T \in DeclaredTypes :
          (AtMismatchOf(T) /\ call.badTypeHandling.rejectType = "RAISE"
                /\ \/ call.badTypeHandling.behaviour = "REJECT"
                   \/ /\ call.badTypeHandling.behaviour = "CAST"
                      /\ ~Construct(T, ItemValue).ok
                      /\ ~call.badTypeHandling.keepFailedCast) =>
              pc' = "raised" /\ cfgModule' = cfgModule]_vars


---------------------------------------------------------------------------
(* Properties of _deserializeField on generic containers *)

IsCollection(value) == value.k \in {"list", "set", "tuple"}

\* The deserialization of the i-th element of the serialized collection
\* against the element type, the trace extended by its index.
ElementOf(i) ==
    _deserializeField(call.fieldName, call.fieldType.params[1], call.serializedValue.v[i],
                      Append(call.c_variableTrace, PyInt(i - 1)),
                      call.c_badTypeHandling, FALSE, TRUE)

\* The deserialization of the value of the i-th item of the serialized
\* mapping against the value type, the trace extended by its key.
ValueOf(i) ==
    _deserializeField(call.fieldName, call.fieldType.params[2], call.serializedValue.v[i][2],
                      Append(call.c_variableTrace, call.serializedValue.v[i][1]),
                      call.c_badTypeHandling, FALSE, TRUE)

\* The result against a mapping hint has the keys of the serialized
\* mapping, each with the deserialization of its value.
MappingShape ==
    /\ ret.val.k = "dict"
    /\ Keys(ret.val) = Keys(call.serializedValue)
    /\ \A i \in 1..Len(ret.val.v) : ValueOf(i).tag = "ok" /\ ret.val.v[i][2] = ValueOf(i).val

\* The result against a list, set or tuple hint is of the origin's kind
\* and holds the deserialization of each element, in order (without
\* repetition in a set).
CollectionShape ==
    /\ ret.val.k = call.fieldType.name
    /\ \A i \in 1..Len(call.serializedValue.v) : ElementOf(i).tag = "ok"
    /\ LET elements == [i \in 1..Len(call.serializedValue.v) |-> ElementOf(i).val]
       IN  ret.val.v = IF call.fieldType.name = "set" THEN Dedup(elements) ELSE elements

\* What C27 states of a finished call against a generic container hint,
\* keyTypeRejected telling the key types a mapping hint must fail for.
ShapePreserved(keyTypeRejected) ==
    LET hint == call.fieldType
        value == call.serializedValue
    IN  /\ hint.name = "dict" =>
              /\ ~IsInstance(value, TClass("dict")) => ret.tag = "TypeError"
              /\ keyTypeRejected => ret.tag # "ok"
              /\ ret.tag = "ok" => MappingShape
        /\ hint.name \in {"list", "set", "tuple"} =>
              /\ ~IsCollection(value) => ret.tag = "TypeError"
              /\ ret.tag = "ok" => CollectionShape

GenericDone == FieldDone /\ call.fieldType.cat = "generic"

\* C27 as stated: generic containers preserve shape, and a serialized value
\* of the wrong container kind, or a mapping hint whose key type is not
\* str, fails whatever the policy.
Orig_C27_GenericShape ==
    GenericDone =>
        ShapePreserved(Len(call.fieldType.params) > 0
                            /\ call.fieldType.params[1] # TClass("str"))

\* The statement of C27 with the failure stated only for a key type that
\* is a class other than str.
GenericShapeForClassKeys ==
    GenericDone =>
        /\ ShapePreserved(Len(call.fieldType.params) > 0
                            /\ IsType(call.fieldType.params[1])
                            /\ call.fieldType.params[1] # TClass("str"))
        /\ (call.fieldType.name = "list" /\ IsCollection(call.serializedValue)
                /\ \E i \in 1..Len(call.serializedValue.v) : ElementOf(i).tag # "ok") =>
              LET first == CHOOSE i \in 1..Len(call.serializedValue.v) :
                              /\ ElementOf(i).tag # "ok"
                              /\ \A j \in 1..(i - 1) : ElementOf(j).tag = "ok"
              IN  ret.tag = ElementOf(first).tag /\ ret.path = ElementOf(first).path

---------------------------------------------------------------------------
(* Properties of the policy and the trace below a nested dataclass *)

\* A finished deserialize of a class whose one field, inner, is itself a
\* dataclass, given a dict with the one key "inner".
NestedDone ==
    /\ pc = "done"
    /\ call.op = "deserialize"
    /\ call.deserializeSerializable
    /\ Len(call.fieldType.params) = 1
    /\ call.fieldType.params[1][1] = "inner"
    /\ call.fieldType.params[1][2].cat = "dataclass"
    /\ call.serializedValue.k = "dict"
    /\ Len(call.serializedValue.v) = 1
    /\ call.serializedValue.v[1][1] = PyStr("inner")

\* The nested class deserialized under the caller's policy, with the trace
\* of the caller extended by the field name.
UnderCallersPolicy ==
    ClassDeserialize(call.fieldType.params[1][2], call.serializedValue.v[1][2], TRUE,
                     Append(call.c_variableTrace, PyStr("inner")), call.c_badTypeHandling)

\* C28: the BadTypeHandling record the caller supplied is the policy in
\* force for the fields of a dataclass nested in another dataclass, and the
\* trace there is the full path from the top-level name: the nested value
\* is accepted, kept or rejected as the caller's policy decides, with the
\* caller's log lines, and a failure below it carries the trace x, inner.
Orig_C28_PolicyTracePropagation ==
    NestedDone =>
        /\ ret.tag = UnderCallersPolicy.tag
        /\ ret.logs = UnderCallersPolicy.logs
        /\ ret.path = UnderCallersPolicy.path

\* The nested class deserialized with the defaults of its deserialize
\* method: the default BadTypeHandling and an empty trace.
UnderDefaults ==
    ClassDeserialize(call.fieldType.params[1][2], call.serializedValue.v[1][2], TRUE,
                     <<>>, DefaultBadTypeHandling)

\* What the code does instead: whatever the caller supplied, the nested
\* class runs under the defaults.
NestedRunsUnderDefaults ==
    NestedDone =>
        /\ ret.tag = UnderDefaults.tag
        /\ ret.logs = UnderDefaults.logs
        /\ ret.path = UnderDefaults.path

---------------------------------------------------------------------------
(* Properties of the serialized input of a deserialization *)

\* The finished call made a second time, on the argument as the first call
\* left it: the caller holds the same object.
SecondCall ==
    IF call.op = "deserialize"
    THEN ClassDeserialize(call.fieldType, ret.inp, call.deserializeSerializable,
                          call.c_variableTrace, call.c_badTypeHandling)
    ELSE _deserializeField(call.fieldName, call.fieldType, ret.inp, call.c_variableTrace,
                           call.c_badTypeHandling, FALSE, call.deserializeSerializable)

DeserializationDone == pc = "done" /\ call.op \in {"deserialize", "_deserializeField"}

\* C29: SerializableDataClass.deserialize and _deserializeField leave the
\* serialized value they are given unchanged, so deserializing the same
\* value a second time returns the same value or raises the same exception
\* as the first time.
Orig_C29_DeserializationPure ==
    DeserializationDone =>
        /\ ret.inp = call.serializedValue
        /\ SecondCall.tag = ret.tag
        /\ SecondCall.val = ret.val

RECURSIVE HoldsDataClass(_)
\* The hint is a SerializableDataClass or has one among its parameters.
HoldsDataClass(hint) ==
    \/ hint.cat = "dataclass"
    \/ /\ hint.cat \in {"union", "generic"}
       /\ \E i \in 1..Len(hint.params) : HoldsDataClass(hint.params[i])

\* What the code does: away from dataclasses the serialized value is left
\* as it was and a second call ends as the first.
PureOutsideDataClasses ==
    (FieldDone /\ ~HoldsDataClass(call.fieldType)) =>
        /\ ret.inp = call.serializedValue
        /\ SecondCall.tag = ret.tag
        /\ SecondCall.val = ret.val

---------------------------------------------------------------------------
(* Properties of the order in which loadCfg writes the module *)

\* A loadCfg call that has entered its loop, has raised or has ended.
InLoadCfg ==
    /\ call.op \in {"loadCfg", "loadDefaultCfg"}
    /\ pc \in {"loading", "raised", "loaded"}

\* The j-th name of the document is a variable of the module.
Recognised(j) == InDefaults(config[j][1], call.defaults)

\* The value the loop arrives at for the j-th item of the document.
LoadedValue(j) ==
    loadVariable(config[j][1], config[j][2], call.defaults, call.badTypeHandling,
                 call.badNameHandling).val

\* The value the module held for the name before the call.
PreviousValue(name) == Module(call.defaults)[name]

\* With idx the position of the name being processed: the recognised names
\* before it hold their loaded values, the others their previous values; a
\* call that raised stopped at a name of the document and a call that ended
\* has passed them all.
AppliedUpTo ==
    InLoadCfg =>
        /\ idx \in 1..(Len(config) + 1)
        /\ pc = "raised" => idx <= Len(config)
        /\ pc = "loaded" => idx = Len(config) + 1
        /\ \A j \in 1..Len(config) :
              Recognised(j) =>
                  cfgModule[config[j][1]] =
                      IF j < idx THEN LoadedValue(j) ELSE PreviousValue(config[j][1])

\* A step of the call never goes back to an earlier name, and one that
\* changes the module moves on by one name and changes that name only.
WritesOneName ==
    InLoadCfg =>
        /\ idx' >= idx
        /\ cfgModule' # cfgModule =>
              /\ pc = "loading"
              /\ idx' = idx + 1
              /\ Recognised(idx)
              /\ DOMAIN cfgModule' = DOMAIN cfgModule
              /\ \A n \in DOMAIN cfgModule :
                    n # config[idx][1] => cfgModule'[n] = cfgModule[n]

\* C30: loadCfg applies the document to the module one name at a time, in
\* the order of the document, with no rollback: when it raises at the k-th
\* name, every recognised name before it holds its newly loaded value and
\* the k-th and all later names hold their previous values; when it does
\* not raise, every recognised name has been written exactly once.
Thm_C30_AppliedInOrder == []AppliedUpTo /\ [][WritesOneName]_vars

\* A call that raised at its second name, the first one already written
\* with a new value and the second left as it was.
Wit_C30 ==
    /\ InLoadCfg
    /\ pc = "raised"
    /\ Len(config) = 2
    /\ idx = 2
    /\ Recognised(1)
    /\ Recognised(2)
    /\ cfgModule[config[1][1]] = LoadedValue(1)
    /\ cfgModule[config[1][1]] # PreviousValue(config[1][1])
    /\ cfgModule[config[2][1]] = PreviousValue(config[2][1])

====
